---------------------------- MODULE Spec2Model ----------------------------
(***************************************************************************)
(* Hagglz negotiation system: the confidence-gated workflow engine.        *)
(*                                                                         *)
(* The module models the master orchestrator graph (src/orchestrator.py),  *)
(* the router chain (src/src/hagglz/core/router_agent.py) and the          *)
(* specialist chains (src/utility_agent.py and src/src/hagglz/agents/).    *)
(*                                                                         *)
(* Conventions                                                             *)
(*  - A Python dict is a function whose DOMAIN is the set of keys present. *)
(*  - A float confidence is an integer number of ten-thousandths.  The     *)
(*    exact decimal values are multiples of 100; a double that lies just   *)
(*    above / below such a value (0.6000000000000001, 0.7999999999999999)  *)
(*    is encoded one unit above / below it, so comparisons against the     *)
(*    thresholds come out as they do in IEEE-754 double arithmetic.        *)
(*  - Money is an integer number of cents; None is NoneAmt.                *)
(*  - A text is the set of scanned substrings it contains, the case they   *)
(*    are written in, and its literal content when the program wrote it.   *)
(*  - The graph library runs the nodes of a compiled graph one after the   *)
(*    other on one state object, following the declared edges.             *)
(***************************************************************************)
EXTENDS Integers, Sequences, FiniteSets, TLC

(***************************************************************************)
(* Bounds of the model                                                     *)
(***************************************************************************)
\* largest number of scanned words in an LLM answer of the orchestrator runs
\* (the answer holding the whole vocabulary is always present as well)
MaxWords == 1
\* largest number of service / subscription words in a type analysis
MaxTypeWords == 2
\* largest confidence score, in hundredths, evaluate_confidence is applied to
MaxScore == 100

(***************************************************************************)
(* Python dict helpers                                                     *)
(***************************************************************************)
EmptyDict == [x \in {} |-> 0]

Get(d, k, default) == IF k \in DOMAIN d THEN d[k] ELSE default

Put(d, k, v) == [x \in (DOMAIN d) \cup {k} |-> IF x = k THEN v ELSE d[x]]

\* dict.update(other)
Update(d, other) ==
    [x \in (DOMAIN d) \cup (DOMAIN other) |-> IF x \in DOMAIN other THEN other[x] ELSE d[x]]

Min(a, b) == IF a <= b THEN a ELSE b

\* Python None as an amount / as a company / in place of a dict
NoneAmt == -1
NoneStr == "<None>"
NoneDict == [x \in {NoneStr} |-> TRUE]
IsNone(d) == NoneStr \in DOMAIN d

(***************************************************************************)
(* IEEE-754 double arithmetic on confidence values (ten-thousandths).      *)
(* The pairs below are the operand pairs, among those the agents can       *)
(* produce, whose double result is not the double nearest to the decimal   *)
(* result (or whose operands were not and whose result is).                *)
(***************************************************************************)
AddUp ==
    { <<4000, 300>>, <<4000, 2000>>, <<4499, 2500>>, <<4899, 1000>>,
      <<4899, 2000>>, <<4899, 2500>>, <<5500, 300>>, <<5500, 500>>,
      <<5500, 600>>, <<5500, 1500>>, <<5599, 400>>, <<5599, 500>>,
      <<5599, 1600>>, <<5599, 2000>>, <<6300, 2000>>, <<9000, 500>> }

AddDown ==
    { <<2500, 900>>, <<2500, 1501>>, <<3000, 300>>, <<3000, 1500>>,
      <<3000, 1501>>, <<4000, 1501>>, <<4200, 2500>>, <<4899, 1501>>,
      <<5000, 1501>>, <<6300, 1501>>, <<7000, 900>>, <<7000, 1000>>,
      <<7000, 1501>>, <<7000, 2000>>, <<7001, 1000>>, <<7201, 800>>,
      <<8500, 600>>, <<8500, 1501>>, <<9000, 1501>> }

\* a + b on doubles
FAdd(a, b) ==
    a + b + (IF <<a, b>> \in AddUp THEN 1 ELSE IF <<a, b>> \in AddDown THEN -1 ELSE 0)

\* n * c on doubles, n an int (a count of matched keywords)
FMulInt(n, c) ==
    n * c + (IF <<n, c>> = <<3, 500>> THEN 1 ELSE IF <<n, c>> = <<3, 1500>> THEN -1 ELSE 0)

\* a * b on doubles, both in ten-thousandths
FMul(a, b) ==
    (a * b) \div 10000
      + (IF <<a, b>> \in {<<8000, 8000>>, <<9000, 8000>>} THEN 1
         ELSE IF <<a, b>> \in {<<7000, 7000>>, <<7000, 8000>>, <<8000, 7000>>} THEN -1
         ELSE 0)

(***************************************************************************)
(* Texts and the LLM collaborator                                          *)
(***************************************************************************)
\* a text written by the program itself (sentinels, defaults)
Lit(s) == [content |-> s, kw |-> {}, caps |-> FALSE]

\* a text returned by the LLM: kw = the scanned substrings it contains,
\* caps = they are written in upper case
LlmText(k, c) == [content |-> "llm", kw |-> k, caps |-> c]

\* str.lower()
Lower(t) == [t EXCEPT !.caps = FALSE]

\* Python's  w in t  for a lower-case literal w
In(w, t) == w \in t.kw /\ ~t.caps

\* sum([w in t for w in ws])
Count(ws, t) == Cardinality({w \in ws : In(w, t)})

\* outcome of self.llm.invoke(prompt): a response or an exception
LlmFail == [ok |-> FALSE, content |-> Lit("")]
LlmOk(t) == [ok |-> TRUE, content |-> t]

\* the answers drawn for a call whose answer is scanned for the words of vocab:
\* every answer with at most n of the words, the answer with all of them, and
\* that one in upper case
Answers(vocab, n) ==
    {LlmFail}
      \cup {LlmOk(LlmText(k, FALSE)) : k \in {s \in SUBSET vocab : Cardinality(s) <= n \/ s = vocab}}
      \cup {LlmOk(LlmText(vocab, TRUE)) : x \in {v \in {vocab} : v # {}}}

\* every answer over the words of vocab
AllAnswers(vocab) == Answers(vocab, Cardinality(vocab))

(***************************************************************************)
(* Router agent: classify, then extract                                    *)
(***************************************************************************)
valid_types == {"UTILITY", "MEDICAL", "SUBSCRIPTION", "TELECOM"}

\* the answers the classification call is given
ClassifyTexts ==
    { "UTILITY", "MEDICAL", "SUBSCRIPTION", "TELECOM",
      " medical\n", "Telecom", "INSURANCE", "This is a UTILITY bill", "" }

\* str.strip() on the texts above
StripStr(s) ==
    CASE s = " medical\n" -> "medical"
      [] s = " City Power " -> "City Power"
      [] OTHER -> s

\* str.upper() on the texts above
UpperStr(s) ==
    CASE s = "medical" -> "MEDICAL"
      [] s = " medical\n" -> " MEDICAL\n"
      [] s = "Telecom" -> "TELECOM"
      [] s = "This is a UTILITY bill" -> "THIS IS A UTILITY BILL"
      [] OTHER -> s

ClassifyAnswers == {LlmFail} \cup {LlmOk(Lit(s)) : s \in ClassifyTexts}

\* route_bill without the check against valid_types
route_bill_unvalidated(state, r) ==
    IF r.ok
      THEN Put(state, "bill_type", UpperStr(StripStr(r.content.content)))
      ELSE Put(state, "bill_type", "UTILITY")

route_bill(state, r) ==
    IF r.ok
      THEN LET bill_type == UpperStr(StripStr(r.content.content))
           IN  Put(state, "bill_type", IF bill_type \notin valid_types THEN "UTILITY" ELSE bill_type)
      ELSE Put(state, "bill_type", "UTILITY")

Digits == {"0", "1", "2", "3", "4", "5", "6", "7", "8", "9"}

DigitVal(c) ==
    CASE c = "0" -> 0 [] c = "1" -> 1 [] c = "2" -> 2 [] c = "3" -> 3 [] c = "4" -> 4
      [] c = "5" -> 5 [] c = "6" -> 6 [] c = "7" -> 7 [] c = "8" -> 8 [] c = "9" -> 9

\* last index of the longest run of characters of S that starts at i (i - 1: no run)
RECURSIVE RunEnd(_, _, _)
RunEnd(cs, i, S) == IF i <= Len(cs) /\ cs[i] \in S THEN RunEnd(cs, i + 1, S) ELSE i - 1

\* value of a sequence of digits
RECURSIVE DigitsValue(_)
DigitsValue(ds) ==
    IF ds = <<>> THEN 0
    ELSE 10 * DigitsValue(SubSeq(ds, 1, Len(ds) - 1)) + DigitVal(ds[Len(ds)])

\* re.search(r'[\d,]+\.?\d*', amount_str) followed by
\* float(match.group().replace(',', '')), in cents (at most two decimals)
ParseAmount(cs) ==
    LET starts == {i \in 1..Len(cs) : cs[i] \in Digits \cup {","}}
    IN  IF starts = {} THEN [matched |-> FALSE, error |-> FALSE, cents |-> 0]
        ELSE LET b    == CHOOSE i \in starts : \A j \in starts : i <= j
                 e1   == RunEnd(cs, b, Digits \cup {","})
                 dot  == e1 + 1 <= Len(cs) /\ cs[e1 + 1] = "."
                 e2   == IF dot THEN RunEnd(cs, e1 + 2, Digits) ELSE e1
                 int  == SelectSeq(SubSeq(cs, b, e1), LAMBDA c : c # ",")
                 frac == IF dot THEN SubSeq(cs, e1 + 2, e2) ELSE <<>>
                 fr2  == IF Len(frac) = 0 THEN 0
                         ELSE IF Len(frac) = 1 THEN 10 * DigitVal(frac[1])
                         ELSE DigitsValue(SubSeq(frac, 1, 2))
             IN  IF int = <<>> /\ frac = <<>>
                   THEN [matched |-> TRUE, error |-> TRUE, cents |-> 0]
                   ELSE [matched |-> TRUE, error |-> FALSE,
                         cents |-> 100 * DigitsValue(int) + fr2]

\* a line of the extraction answer: what it starts with, the rest as a string
\* (company names) and the rest as characters (amounts)
Line(prefix, text, chars) == [prefix |-> prefix, text |-> text, chars |-> chars]

ExtractTexts ==
    { << Line("Company:", " City Power ", <<>>),
         Line("Amount:", "", <<" ", "1", "2", "4", ".", "5", "8">>) >>,
      << Line("Company:", "Medical Center", <<>>),
         Line("Amount:", "", <<"$", "2", ",", "4", "5", "0", ".", "0", "0">>),
         Line("Account:", "123456789", <<>>) >>,
      << Line("Amount:", "", <<"N", "/", "A">>) >>,
      << Line("Amount:", "", <<"1", "9", ".", "9", "9">>),
         Line("Amount:", "", <<",">>) >>,
      << Line("  Company:", "City Power", <<>>) >>,
      << >> }

\* the extraction call raising, or answering with lines
ExtractAnswers ==
    {[ok |-> FALSE, content |-> <<>>]} \cup {[ok |-> TRUE, content |-> ls] : ls \in ExtractTexts}

\* one iteration of  for line in details.split('\n')
ParseLine(state, line) ==
    IF line.prefix = "Company:"
      THEN Put(state, "company", StripStr(line.text))
    ELSE IF line.prefix = "Amount:"
      THEN LET m == ParseAmount(line.chars)
           IN  IF ~m.matched THEN state
               ELSE IF m.error THEN Put(state, "amount", 0)
               ELSE Put(state, "amount", m.cents)
    ELSE state

RECURSIVE ParseLines(_, _)
ParseLines(state, ls) ==
    IF ls = <<>> THEN state ELSE ParseLines(ParseLine(state, Head(ls)), Tail(ls))

\* extract_bill_details whose except branch also sets a confidence
extract_bill_details_scored(state, r) ==
    IF r.ok
      THEN ParseLines(state, r.content)
      ELSE Put(Put(Put(state, "company", "Unknown"), "amount", 0), "confidence_score", 3000)

extract_bill_details(state, r) ==
    IF r.ok
      THEN ParseLines(state, r.content)
      ELSE Put(Put(state, "company", "Unknown"), "amount", 0)

\* BillState(...) of RouterAgent.process_bill
RouterInitialState(ocr_text) ==
    [ bill_type |-> "", ocr_text |-> ocr_text, company |-> "", amount |-> 0,
      negotiation_strategy |-> Lit(""), conversation_history |-> <<>>,
      confidence_score |-> 0, errors |-> "", script |-> Lit("") ]

\* RouterAgent.process_bill: the compiled two-stage chain on a fresh state
RouterProcessBill(ocr_text, r1, r2) ==
    extract_bill_details(route_bill(RouterInitialState(ocr_text), r1), r2)

(***************************************************************************)
(* Money: round(x, 2) of a double product, in cents.                       *)
(* The exact product is split into whole cents and ten-thousandths of a    *)
(* cent; when it lies exactly between two cents the double decides, and    *)
(* TieUp lists the (amount, percentage, kind) triples of the model's       *)
(* amounts that go up.                                                     *)
(***************************************************************************)
TieUp == { <<12458, 2500, "final">>, <<1, 5000, "savings">>, <<1, 5000, "final">> }

\* round to cents of q + r / 10000 cents, 0 <= r < 10000
RoundMoney(q, r, key) ==
    IF r > 5000 THEN q + 1
    ELSE IF r < 5000 THEN q
    ELSE IF key \in TieUp THEN q + 1 ELSE q

\* round(amount * percentage, 2); p is the percentage in ten-thousandths
RoundSavings(amount, p) ==
    RoundMoney((amount * p) \div 10000, (amount * p) % 10000, <<amount, p, "savings">>)

\* round(amount * percentage * 12, 2)
RoundAnnual(amount, p) ==
    LET r12 == ((amount * p) % 10000) * 12
    IN  RoundMoney(((amount * p) \div 10000) * 12 + r12 \div 10000, r12 % 10000,
                   <<amount, p, "annual">>)

\* a final amount that is the amount itself
RoundFinalOfAmount(amount, p) == amount

\* round(amount - amount * percentage, 2)
RoundFinal(amount, p) ==
    LET q0 == (amount * p) \div 10000
        r0 == (amount * p) % 10000
    IN  IF r0 = 0 THEN amount - q0
        ELSE RoundMoney(amount - q0 - 1, 10000 - r0, <<amount, p, "final">>)

\* a scenario of a recurring bill; the percentage field is in tenths of a percent
RecurringScenario(amount, p) ==
    [ monthly_savings |-> RoundSavings(amount, p),
      annual_savings  |-> RoundAnnual(amount, p),
      percentage      |-> p \div 10 ]

\* a scenario of a one-off (medical) bill
OneOffScenario(amount, p) ==
    [ savings_amount |-> RoundSavings(amount, p),
      final_amount   |-> RoundFinal(amount, p),
      percentage     |-> p \div 10 ]

\* None * float raises TypeError in the savings stages
SavingsRaises(state) == Get(state, "amount", 0) = NoneAmt

(***************************************************************************)
(* Utility agent, src/utility_agent.py (five stages)                       *)
(***************************************************************************)
UsageWords == {"loyal", "savings", "competitor", "discount", "programme"}
UtilityStrategyWords == {"loyal", "competitor", "hardship", "discount"}
UtilityScriptWords == {"opening", "discount", "competitor", "loyal"}

\* analyse_usage_history without the 0.9 ceiling on base_confidence
analyse_usage_history_unclamped(state, r) ==
    IF r.ok
      THEN LET analysis_text == Lower(r.content)
               base_confidence == FAdd(FMulInt(Count(UsageWords, analysis_text), 1500), 2500)
           IN  Put(Put(state, "usage_analysis", r.content),
                   "confidence_score", base_confidence)
      ELSE Put(Put(state, "usage_analysis", Lit("Analysis unavailable")),
               "confidence_score", 3000)

analyse_usage_history(state, r) ==
    IF r.ok
      THEN LET analysis_text == Lower(r.content)
               base_confidence == FAdd(FMulInt(Count(UsageWords, analysis_text), 1500), 2500)
           IN  Put(Put(state, "usage_analysis", r.content),
                   "confidence_score", Min(base_confidence, 9000))
      ELSE Put(Put(state, "usage_analysis", Lit("Analysis unavailable")),
               "confidence_score", 3000)

research_competitors(state, r) ==
    IF r.ok
      THEN Put(state, "competitor_research", r.content)
      ELSE Put(state, "competitor_research", Lit("Competitor research unavailable"))

generate_negotiation_strategy(state, r) ==
    IF r.ok
      THEN Put(state, "negotiation_strategy", r.content)
      ELSE Put(state, "negotiation_strategy", Lit("Strategy generation failed"))

\* selected_scripts of create_negotiation_script, as indices into
\* self.negotiation_scripts: [1:3] is templates 1 and 2, [3:4] is template 3
utility_selected_scripts(state) ==
    LET strategy_text == Lower(Get(state, "negotiation_strategy", Lit("")))
        s1 == IF In("loyal", strategy_text) THEN <<0>> ELSE <<>>
        s2 == IF In("competitor", strategy_text) THEN s1 \o <<1, 2>> ELSE s1
        s3 == IF In("hardship", strategy_text) THEN s2 \o <<4>> ELSE s2
        s4 == IF In("discount", strategy_text) THEN s3 \o <<3>> ELSE s3
    IN  IF s4 = <<>> THEN <<0, 1, 2>> ELSE s4

\* create_negotiation_script whose except branch also resets the confidence,
\* as the except branch of analyse_usage_history does
create_negotiation_script_reset(state, r) ==
    IF r.ok
      THEN LET script_bonus == FMulInt(Count(UtilityScriptWords, Lower(r.content)), 500)
           IN  Put(Put(state, "script", r.content),
                   "confidence_score",
                   Min(FAdd(Get(state, "confidence_score", 5000), script_bonus), 9500))
      ELSE Put(Put(state, "script", Lit("Script generation failed")),
               "confidence_score", 3000)

create_negotiation_script(state, r) ==
    IF r.ok
      THEN LET script_bonus == FMulInt(Count(UtilityScriptWords, Lower(r.content)), 500)
           IN  Put(Put(state, "script", r.content),
                   "confidence_score",
                   Min(FAdd(Get(state, "confidence_score", 5000), script_bonus), 9500))
      ELSE Put(state, "script", Lit("Script generation failed"))

\* the scenario chosen as target_savings by the confidence thresholds
\* the selection of target_savings by the confidence thresholds
ByConfidence(confidence, savings_analysis) ==
    IF confidence > 8000 THEN savings_analysis["aggressive"]
    ELSE IF confidence > 6000 THEN savings_analysis["moderate"]
    ELSE savings_analysis["conservative"]

\* calculate_savings_potential that also takes the target's monthly savings
\* off the amount
calculate_savings_potential_applied(state) ==
    LET current_amount == Get(state, "amount", 0)
        savings_scenarios == [conservative |-> 500, moderate |-> 1500, aggressive |-> 2500]
        savings_analysis ==
            [sc \in DOMAIN savings_scenarios |-> RecurringScenario(current_amount, savings_scenarios[sc])]
        target == ByConfidence(Get(state, "confidence_score", 5000), savings_analysis)
    IN  Put(Put(Put(state, "savings_potential", savings_analysis), "target_savings", target),
            "amount", current_amount - target.monthly_savings)

calculate_savings_potential(state) ==
    LET current_amount == Get(state, "amount", 0)
        savings_scenarios == [conservative |-> 500, moderate |-> 1500, aggressive |-> 2500]
        savings_analysis ==
            [sc \in DOMAIN savings_scenarios |-> RecurringScenario(current_amount, savings_scenarios[sc])]
        confidence == Get(state, "confidence_score", 5000)
    IN  Put(Put(state, "savings_potential", savings_analysis),
            "target_savings", ByConfidence(confidence, savings_analysis))

(***************************************************************************)
(* Utility agent, src/src/hagglz/agents/utility_agent.py (three stages)    *)
(***************************************************************************)
ResearchWords == {"match", "beat", "discount", "offer", "promotion"}

plan_analyse_usage_history(state, r) == analyse_usage_history(state, r)

\* boost = 0.0, then boost += 0.03 for each of the n words found
RECURSIVE Boost(_)
Boost(n) == IF n = 0 THEN 0 ELSE FAdd(Boost(n - 1), 300)

plan_research_competitors(state, r) ==
    IF r.ok
      THEN LET boost == Boost(Count(ResearchWords, Lower(r.content)))
           IN  Put(Put(state, "competitor_research", r.content),
                   "confidence_score",
                   Min(FAdd(Get(state, "confidence_score", 2500), boost), 9500))
      ELSE Put(state, "competitor_research", Lit("Research unavailable"))

\* the percentage is round(100 * min(0.35, confidence), 1), in tenths of a percent
generate_negotiation_plan(state, r) ==
    IF r.ok
      THEN Put(Put(state, "negotiation_strategy", r.content),
               "target_savings",
               [percentage |-> (Min(3500, Get(state, "confidence_score", 3000)) + 5) \div 10])
      ELSE Put(Put(state, "negotiation_strategy", Lit("Unable to generate strategy")),
               "target_savings", [percentage |-> 0])

(***************************************************************************)
(* Medical agent, src/src/hagglz/agents/medical_agent.py                   *)
(***************************************************************************)
MedicalStrategyWords == {"charity", "uninsured", "hardship", "settlement", "payment plan"}

\* check_billing_errors that records has_errors when its call succeeds
check_billing_errors_flagging(state, r) ==
    IF r.ok
      THEN Put(Put(state, "error_analysis", r.content), "has_errors", TRUE)
      ELSE Put(state, "error_analysis", Lit("Analysis unavailable"))

check_billing_errors(state, r) ==
    IF r.ok
      THEN Put(state, "error_analysis", r.content)
      ELSE Put(state, "error_analysis", Lit("Analysis unavailable"))

assess_financial_hardship(state, r) ==
    IF r.ok
      THEN Put(state, "financial_assistance", r.content)
      ELSE Put(state, "financial_assistance", Lit("Financial assistance assessment unavailable"))

\* base_confidence after the four  if ...: base_confidence += ...  statements
MedicalBaseConfidence(has_errors, amount, text) ==
    LET c0 == 4000
        c1 == IF has_errors THEN FAdd(c0, 2000) ELSE c0
        c2 == IF amount > 100000 THEN FAdd(c1, 1000) ELSE c1
        c3 == IF In("charity", Lower(text)) THEN FAdd(c2, 1000) ELSE c2
        c4 == IF In("uninsured", Lower(text)) THEN FAdd(c3, 1000) ELSE c3
    IN  c4

\* the except branch is taken when the LLM call raises and when
\* amount > 1000 raises on a None amount
generate_medical_strategy(state, r) ==
    LET has_errors == Get(state, "has_errors", FALSE)
        amount == Get(state, "amount", 0)
    IN  IF r.ok /\ amount # NoneAmt
          THEN Put(Put(state, "negotiation_strategy", r.content),
                   "confidence_score",
                   Min(MedicalBaseConfidence(has_errors, amount, r.content), 9000))
          ELSE Put(Put(state, "negotiation_strategy", Lit("Strategy generation failed")),
                   "confidence_score", 3000)

\* selected_scripts of create_medical_script without the default templates
medical_selected_scripts_undefaulted(state) ==
    LET has_errors == Get(state, "has_errors", FALSE)
        strategy_text == Lower(Get(state, "negotiation_strategy", Lit("")))
        s1 == IF has_errors THEN <<0, 3, 4>> ELSE <<>>
        s2 == IF In("hardship", strategy_text) \/ In("charity", strategy_text)
                THEN s1 \o <<2>> ELSE s1
        s3 == IF In("settlement", strategy_text) THEN s2 \o <<1>> ELSE s2
        s4 == IF In("uninsured", strategy_text) THEN s3 \o <<5>> ELSE s3
        s5 == IF In("payment plan", strategy_text) THEN s4 \o <<6>> ELSE s4
    IN  s5

\* selected_scripts of create_medical_script, as indices into self.medical_scripts
medical_selected_scripts(state) ==
    LET has_errors == Get(state, "has_errors", FALSE)
        strategy_text == Lower(Get(state, "negotiation_strategy", Lit("")))
        s1 == IF has_errors THEN <<0, 3, 4>> ELSE <<>>
        s2 == IF In("hardship", strategy_text) \/ In("charity", strategy_text)
                THEN s1 \o <<2>> ELSE s1
        s3 == IF In("settlement", strategy_text) THEN s2 \o <<1>> ELSE s2
        s4 == IF In("uninsured", strategy_text) THEN s3 \o <<5>> ELSE s3
        s5 == IF In("payment plan", strategy_text) THEN s4 \o <<6>> ELSE s4
    IN  IF s5 = <<>> THEN <<0, 1, 2>> ELSE s5

\* create_medical_script whose except branch lowers the confidence
create_medical_script_scored(state, r) ==
    IF r.ok
      THEN Put(state, "script", r.content)
      ELSE Put(Put(state, "script", Lit("Script generation failed")), "confidence_score", 3000)

create_medical_script(state, r) ==
    IF r.ok
      THEN Put(state, "script", r.content)
      ELSE Put(state, "script", Lit("Script generation failed"))

\* calculate_medical_savings without the billing-error override of the target
calculate_medical_savings_by_confidence(state) ==
    LET current_amount == Get(state, "amount", 0)
        savings_scenarios ==
            IF Get(state, "has_errors", FALSE)
              THEN [conservative |-> 2000, moderate |-> 4000, aggressive |-> 6000]
              ELSE [conservative |-> 1500, moderate |-> 3000, aggressive |-> 5000]
        savings_analysis ==
            [sc \in DOMAIN savings_scenarios |-> OneOffScenario(current_amount, savings_scenarios[sc])]
    IN  Put(Put(state, "savings_potential", savings_analysis),
            "target_savings",
            ByConfidence(Get(state, "confidence_score", 5000), savings_analysis))

calculate_medical_savings(state) ==
    LET current_amount == Get(state, "amount", 0)
        has_errors == Get(state, "has_errors", FALSE)
        savings_scenarios ==
            IF has_errors
              THEN [conservative |-> 2000, moderate |-> 4000, aggressive |-> 6000]
              ELSE [conservative |-> 1500, moderate |-> 3000, aggressive |-> 5000]
        savings_analysis ==
            [sc \in DOMAIN savings_scenarios |-> OneOffScenario(current_amount, savings_scenarios[sc])]
        confidence == Get(state, "confidence_score", 5000)
    IN  Put(Put(state, "savings_potential", savings_analysis),
            "target_savings",
            IF confidence > 8000 \/ has_errors THEN savings_analysis["aggressive"]
            ELSE IF confidence > 6000 THEN savings_analysis["moderate"]
            ELSE savings_analysis["conservative"])

(***************************************************************************)
(* Subscription agent, src/src/hagglz/agents/subscription_agent.py         *)
(***************************************************************************)
subscription_types ==
    [ streaming |-> [negotiation_potential |-> 7000,
                     common_discounts |-> <<"student", "annual", "bundle", "loyalty">>,
                     typical_savings |-> 2500],
      software  |-> [negotiation_potential |-> 8000,
                     common_discounts |-> <<"annual", "multi-user", "nonprofit", "startup">>,
                     typical_savings |-> 3000],
      fitness   |-> [negotiation_potential |-> 9000,
                     common_discounts |-> <<"annual", "family", "corporate", "student">>,
                     typical_savings |-> 3500],
      news      |-> [negotiation_potential |-> 8000,
                     common_discounts |-> <<"student", "senior", "annual", "digital-only">>,
                     typical_savings |-> 4000],
      cloud     |-> [negotiation_potential |-> 6000,
                     common_discounts |-> <<"annual", "volume", "startup", "nonprofit">>,
                     typical_savings |-> 2000] ]

\* self.subscription_types.keys(), in insertion order
SubscriptionTypeOrder == <<"streaming", "software", "fitness", "news", "cloud">>

SubscriptionTypeWords == {"streaming", "software", "fitness", "news", "cloud"}

\* the default passed to self.subscription_types.get(detected_type, {...})
SubscriptionFallbackInfo ==
    [negotiation_potential |-> 6000,
     common_discounts |-> <<"annual", "loyalty">>,
     typical_savings |-> 2500]

\* for sub_type in keys: if sub_type in analysis_text: detected_type = sub_type; break
DetectSubscriptionType(analysis_text) ==
    LET hits == {i \in 1..Len(SubscriptionTypeOrder) : In(SubscriptionTypeOrder[i], analysis_text)}
    IN  IF hits = {} THEN "other"
        ELSE SubscriptionTypeOrder[CHOOSE i \in hits : \A j \in hits : i <= j]

identify_subscription_type(state, r) ==
    IF r.ok
      THEN LET detected_type == DetectSubscriptionType(Lower(r.content))
           IN  Put(Put(Put(state, "subscription_analysis", r.content),
                       "subscription_type", detected_type),
                   "type_info", Get(subscription_types, detected_type, SubscriptionFallbackInfo))
      ELSE Put(Put(Put(state, "subscription_analysis", Lit("Analysis unavailable")),
                   "subscription_type", "other"),
               "type_info", subscription_types["streaming"])

analyse_usage_patterns(state, r) ==
    IF r.ok
      THEN Put(state, "usage_analysis", r.content)
      ELSE Put(state, "usage_analysis", Lit("Usage analysis unavailable"))

research_alternatives(state, r) ==
    IF r.ok
      THEN Put(state, "alternatives_research", r.content)
      ELSE Put(state, "alternatives_research", Lit("Alternatives research unavailable"))

SubscriptionConfidenceWords == {"competitor", "discount", "cancel", "alternative", "loyalty"}
SubscriptionStrategyWords == SubscriptionConfidenceWords \cup {"downgrade", "hardship"}

generate_subscription_strategy(state, r) ==
    LET type_info == Get(state, "type_info", EmptyDict)
        negotiation_potential == Get(type_info, "negotiation_potential", 6000)
    IN  IF r.ok
          THEN LET base_confidence == FMul(negotiation_potential, 7000)
                   strategy_bonus ==
                       FMulInt(Count(SubscriptionConfidenceWords, Lower(r.content)), 500)
               IN  Put(Put(state, "negotiation_strategy", r.content),
                       "confidence_score", Min(FAdd(base_confidence, strategy_bonus), 9000))
          ELSE Put(Put(state, "negotiation_strategy", Lit("Strategy generation failed")),
                   "confidence_score", 4000)

\* selected_scripts of create_subscription_script, as indices into
\* self.subscription_scripts
subscription_selected_scripts(state) ==
    LET strategy_text == Lower(Get(state, "negotiation_strategy", Lit("")))
        s1 == IF In("loyalty", strategy_text) THEN <<0>> ELSE <<>>
        s2 == IF In("competitor", strategy_text) THEN s1 \o <<1, 3>> ELSE s1
        s3 == IF In("cancel", strategy_text) THEN s2 \o <<4>> ELSE s2
        s4 == IF In("downgrade", strategy_text) THEN s3 \o <<2>> ELSE s3
        s5 == IF In("hardship", strategy_text) THEN s4 \o <<5>> ELSE s4
    IN  IF s5 = <<>> THEN <<0, 1, 2>> ELSE s5

create_subscription_script(state, r) ==
    IF r.ok
      THEN Put(state, "script", r.content)
      ELSE Put(state, "script", Lit("Script generation failed"))

\* typical_savings * factor, factor in tenths
Scaled(typical_savings, tenths) == (typical_savings * tenths) \div 10

calculate_subscription_savings(state) ==
    LET current_amount == Get(state, "amount", 0)
        type_info == Get(state, "type_info", EmptyDict)
        typical_savings == Get(type_info, "typical_savings", 2500)
        savings_scenarios ==
            [conservative |-> Scaled(typical_savings, 6),
             moderate     |-> typical_savings,
             aggressive   |-> Scaled(typical_savings, 14)]
        savings_analysis ==
            [sc \in DOMAIN savings_scenarios |-> RecurringScenario(current_amount, savings_scenarios[sc])]
        confidence == Get(state, "confidence_score", 5000)
    IN  Put(Put(state, "savings_potential", savings_analysis),
            "target_savings", ByConfidence(confidence, savings_analysis))

(***************************************************************************)
(* Telecom agent, src/src/hagglz/agents/telecom_agent.py                   *)
(***************************************************************************)
telecom_types ==
    [ mobile   |-> [negotiation_potential |-> 8000,
                    common_tactics |-> <<"competitor_comparison", "usage_analysis", "loyalty_discount">>,
                    typical_savings |-> 2500,
                    key_factors |-> <<"data_usage", "call_minutes", "contract_status">>],
      internet |-> [negotiation_potential |-> 9000,
                    common_tactics |-> <<"speed_downgrade", "competitor_offers", "bundle_analysis">>,
                    typical_savings |-> 3000,
                    key_factors |-> <<"speed_requirements", "data_caps", "promotional_expiry">>],
      cable    |-> [negotiation_potential |-> 9000,
                    common_tactics |-> <<"cord_cutting_threat", "channel_reduction", "streaming_alternatives">>,
                    typical_savings |-> 3500,
                    key_factors |-> <<"channel_usage", "streaming_services", "contract_terms">>],
      landline |-> [negotiation_potential |-> 7000,
                    common_tactics |-> <<"necessity_question", "basic_plan", "bundle_removal">>,
                    typical_savings |-> 4000,
                    key_factors |-> <<"actual_usage", "mobile_alternative", "emergency_needs">>],
      bundle   |-> [negotiation_potential |-> 8000,
                    common_tactics |-> <<"service_separation", "competitor_bundles", "usage_optimisation">>,
                    typical_savings |-> 2500,
                    key_factors |-> <<"individual_service_costs", "usage_patterns", "contract_flexibility">>] ]

TelecomTypeWords ==
    {"mobile", "cell", "internet", "cable", "tv", "landline", "home phone", "bundle"}

DetectTelecomType(analysis_text) ==
    IF In("mobile", analysis_text) \/ In("cell", analysis_text) THEN "mobile"
    ELSE IF In("internet", analysis_text) /\ ~In("cable", analysis_text) THEN "internet"
    ELSE IF In("cable", analysis_text) \/ In("tv", analysis_text) THEN "cable"
    ELSE IF In("landline", analysis_text) \/ In("home phone", analysis_text) THEN "landline"
    ELSE IF In("bundle", analysis_text)
            \/ (In("internet", analysis_text) /\ In("tv", analysis_text)) THEN "bundle"
    ELSE "bundle"

identify_telecom_services(state, r) ==
    IF r.ok
      THEN LET detected_type == DetectTelecomType(Lower(r.content))
           IN  Put(Put(Put(state, "service_analysis", r.content),
                       "telecom_type", detected_type),
                   "type_info", Get(telecom_types, detected_type, telecom_types["bundle"]))
      ELSE Put(Put(Put(state, "service_analysis", Lit("Analysis unavailable")),
                   "telecom_type", "bundle"),
               "type_info", telecom_types["bundle"])

\* analyse_usage_and_needs that, when its call fails, writes a lower
\* typical_savings into the type_info entry
analyse_usage_and_needs_adjusting(state, r) ==
    IF r.ok
      THEN Put(state, "usage_analysis", r.content)
      ELSE Put(Put(state, "usage_analysis", Lit("Usage analysis unavailable")),
               "type_info", [state.type_info EXCEPT !.typical_savings = 1000])

analyse_usage_and_needs(state, r) ==
    IF r.ok
      THEN Put(state, "usage_analysis", r.content)
      ELSE Put(state, "usage_analysis", Lit("Usage analysis unavailable"))

\* research_competitor_offers whose except branch only logs
research_competitor_offers_silent(state, r) ==
    IF r.ok
      THEN Put(state, "competitor_research", r.content)
      ELSE state

research_competitor_offers(state, r) ==
    IF r.ok
      THEN Put(state, "competitor_research", r.content)
      ELSE Put(state, "competitor_research", Lit("Competitor research unavailable"))

TelecomConfidenceWords == {"competitor", "retention", "promotional", "usage", "cancel"}
TelecomStrategyWords == TelecomConfidenceWords \cup {"bundle"}

generate_telecom_strategy(state, r) ==
    LET type_info == Get(state, "type_info", EmptyDict)
        negotiation_potential == Get(type_info, "negotiation_potential", 8000)
    IN  IF r.ok
          THEN LET base_confidence == FMul(negotiation_potential, 8000)
                   strategy_bonus ==
                       FMulInt(Count(TelecomConfidenceWords, Lower(r.content)), 400)
               IN  Put(Put(state, "negotiation_strategy", r.content),
                       "confidence_score", Min(FAdd(base_confidence, strategy_bonus), 9500))
          ELSE Put(Put(state, "negotiation_strategy", Lit("Strategy generation failed")),
                   "confidence_score", 5000)

\* selected_scripts of create_telecom_script, as indices into self.telecom_scripts
telecom_selected_scripts(state) ==
    LET strategy_text == Lower(Get(state, "negotiation_strategy", Lit("")))
        s1 == IF In("competitor", strategy_text) THEN <<0, 1>> ELSE <<>>
        s2 == IF In("promotional", strategy_text) THEN s1 \o <<2>> ELSE s1
        s3 == IF In("usage", strategy_text) THEN s2 \o <<3, 7>> ELSE s2
        s4 == IF In("bundle", strategy_text) THEN s3 \o <<4>> ELSE s3
        s5 == IF In("cancel", strategy_text) THEN s4 \o <<6>> ELSE s4
    IN  IF s5 = <<>> THEN <<0, 1, 2>> ELSE s5

create_telecom_script(state, r) ==
    IF r.ok
      THEN Put(state, "script", r.content)
      ELSE Put(state, "script", Lit("Script generation failed"))

\* calculate_telecom_savings choosing the target by confidence alone
calculate_telecom_savings_by_confidence(state) ==
    LET current_amount == Get(state, "amount", 0)
        type_info == Get(state, "type_info", EmptyDict)
        typical_savings == Get(type_info, "typical_savings", 2500)
        savings_scenarios ==
            [conservative |-> Scaled(typical_savings, 7),
             moderate     |-> typical_savings,
             aggressive   |-> Scaled(typical_savings, 13)]
        savings_analysis ==
            [sc \in DOMAIN savings_scenarios |-> RecurringScenario(current_amount, savings_scenarios[sc])]
    IN  Put(Put(state, "savings_potential", savings_analysis),
            "target_savings",
            ByConfidence(Get(state, "confidence_score", 5000), savings_analysis))

calculate_telecom_savings(state) ==
    LET current_amount == Get(state, "amount", 0)
        type_info == Get(state, "type_info", EmptyDict)
        typical_savings == Get(type_info, "typical_savings", 2500)
        savings_scenarios ==
            [conservative |-> Scaled(typical_savings, 7),
             moderate     |-> typical_savings,
             aggressive   |-> Scaled(typical_savings, 13)]
        savings_analysis ==
            [sc \in DOMAIN savings_scenarios |-> RecurringScenario(current_amount, savings_scenarios[sc])]
        confidence == Get(state, "confidence_score", 5000)
        negotiation_potential == Get(type_info, "negotiation_potential", 8000)
    IN  Put(Put(state, "savings_potential", savings_analysis),
            "target_savings",
            IF confidence > 8000 /\ negotiation_potential > 8000 THEN savings_analysis["aggressive"]
            ELSE IF confidence > 6000 THEN savings_analysis["moderate"]
            ELSE savings_analysis["conservative"])

(***************************************************************************)
(* Master orchestrator, src/orchestrator.py                                *)
(***************************************************************************)
CONFIDENCE_THRESHOLD_AUTO == 8000
CONFIDENCE_THRESHOLD_SUPERVISED == 5000

\* NegotiationState(bill_data=bill_data, messages=[], user_id=...)
NegotiationState(bill_data) ==
    [ messages |-> <<>>, bill_data |-> bill_data, agent_decision |-> "",
      negotiation_result |-> EmptyDict, confidence_score |-> 0,
      execution_mode |-> "", error_messages |-> <<>>,
      processing_status |-> "pending" ]

\* Python truthiness of the OCR text
Falsy(text) == text = "" \/ text = NoneStr

\* an except branch of route_negotiation that only logs
RoutingErrorSilent(state, msg) ==
    [state EXCEPT !.processing_status = "routing_error"]

\* the except branch of route_negotiation
RoutingError(state, msg) ==
    [state EXCEPT
       !.error_messages = Append(@, msg),
       !.agent_decision = "UTILITY",
       !.processing_status = "routing_error"]

route_negotiation(state, r1, r2) ==
    LET bill_data == Get(state, "bill_data", EmptyDict)
        ocr_text == Get(bill_data, "text", "")
    IN  IF IsNone(bill_data)
          THEN RoutingError(state, "Routing error: 'NoneType' object has no attribute 'get'")
        ELSE IF Falsy(ocr_text)
          THEN RoutingError(state, "Routing error: No OCR text provided in bill data")
          ELSE LET router_result == RouterProcessBill(ocr_text, r1, r2)
               IN  [state EXCEPT
                      !.agent_decision = Get(router_result, "bill_type", "UTILITY"),
                      !.bill_data = Update(@,
                          [company   |-> Get(router_result, "company", "Unknown"),
                           amount    |-> Get(router_result, "amount", 0),
                           bill_type |-> Get(router_result, "bill_type", "UTILITY")]),
                      !.processing_status = "routed"]

\* whether route_negotiation reaches router_agent.process_bill
RouterInvoked(state) ==
    /\ ~IsNone(Get(state, "bill_data", EmptyDict))
    /\ ~Falsy(Get(Get(state, "bill_data", EmptyDict), "text", ""))


\* the nodes of each compiled specialist graph, in edge order
UtilityNodes ==
    <<"analyse_usage", "research_competitors", "generate_strategy", "create_script",
      "calculate_savings">>
PlanNodes == <<"analyse_usage_history", "research_competitors", "generate_plan">>
MedicalNodes ==
    <<"check_errors", "assess_hardship", "generate_strategy", "create_script",
      "calculate_savings">>
SubscriptionNodes ==
    <<"identify_type", "analyse_usage", "research_alternatives", "generate_strategy",
      "create_script", "calculate_savings">>
TelecomNodes ==
    <<"identify_services", "analyse_usage", "research_competitors", "generate_strategy",
      "create_script", "calculate_savings">>
RouterNodes == <<"route", "extract">>

\* the outcome of workflow.invoke(state): the final state, or an exception
SavingsOutcome(st, final) ==
    IF SavingsRaises(st) THEN [raised |-> TRUE, state |-> EmptyDict]
    ELSE [raised |-> FALSE, state |-> final]

\* compiled graphs run on a state with the answers rs[i] of their LLM calls
UtilityInvoke(s0, rs) ==
    LET s4 == create_negotiation_script(
                generate_negotiation_strategy(
                  research_competitors(analyse_usage_history(s0, rs[1]), rs[2]), rs[3]), rs[4])
    IN  SavingsOutcome(s4, calculate_savings_potential(s4))

PlanInvoke(s0, rs) ==
    [ raised |-> FALSE,
      state |-> generate_negotiation_plan(
                  plan_research_competitors(plan_analyse_usage_history(s0, rs[1]), rs[2]),
                  rs[3]) ]

MedicalInvoke(s0, rs) ==
    LET s4 == create_medical_script(
                generate_medical_strategy(
                  assess_financial_hardship(check_billing_errors(s0, rs[1]), rs[2]), rs[3]), rs[4])
    IN  SavingsOutcome(s4, calculate_medical_savings(s4))

SubscriptionInvoke(s0, rs) ==
    LET s5 == create_subscription_script(
                generate_subscription_strategy(
                  research_alternatives(
                    analyse_usage_patterns(identify_subscription_type(s0, rs[1]), rs[2]), rs[3]),
                  rs[4]), rs[5])
    IN  SavingsOutcome(s5, calculate_subscription_savings(s5))

TelecomInvoke(s0, rs) ==
    LET s5 == create_telecom_script(
                generate_telecom_strategy(
                  research_competitor_offers(
                    analyse_usage_and_needs(identify_telecom_services(s0, rs[1]), rs[2]), rs[3]),
                  rs[4]), rs[5])
    IN  SavingsOutcome(s5, calculate_telecom_savings(s5))

\* agent_workflows of execute_specialist_agent; impl is the utility_agent
\* module the deployment imports
agent_workflows == {"UTILITY", "MEDICAL", "SUBSCRIPTION", "TELECOM"}

WorkflowInvoke(agent_type, impl, s0, rs) ==
    CASE agent_type = "UTILITY" /\ impl = "full" -> UtilityInvoke(s0, rs)
      [] agent_type = "UTILITY" /\ impl = "plan" -> PlanInvoke(s0, rs)
      [] agent_type = "MEDICAL" -> MedicalInvoke(s0, rs)
      [] agent_type = "SUBSCRIPTION" -> SubscriptionInvoke(s0, rs)
      [] agent_type = "TELECOM" -> TelecomInvoke(s0, rs)

\* an except branch of execute_specialist_agent that only logs
SpecialistErrorUnrecorded(state, msg) ==
    [state EXCEPT
       !.confidence_score = 0,
       !.processing_status = "specialist_error",
       !.negotiation_result =
           [error |-> msg,
            strategy |-> Lit("Error occurred during processing"),
            script |-> Lit("Unable to generate script due to error")]]

\* the except branch of execute_specialist_agent
SpecialistError(state, msg) ==
    [state EXCEPT
       !.error_messages = Append(@, msg),
       !.confidence_score = 0,
       !.processing_status = "specialist_error",
       !.negotiation_result =
           [error |-> msg,
            strategy |-> Lit("Error occurred during processing"),
            script |-> Lit("Unable to generate script due to error")]]

\* whether execute_specialist_agent reaches selected_workflow.invoke
SpecialistInvoked(state) ==
    /\ state.agent_decision \in agent_workflows
    /\ ~IsNone(state.bill_data)

execute_specialist_agent(state, impl, rs) ==
    LET agent_type == state.agent_decision
    IN  IF agent_type \notin agent_workflows
          THEN SpecialistError(state,
                 "Specialist execution error: Unknown agent type: " \o agent_type)
        ELSE IF IsNone(state.bill_data)
          THEN SpecialistError(state,
                 "Specialist execution error: 'NoneType' object has no attribute 'get'")
          ELSE LET specialist_state ==
                     [ bill_type |-> Get(state.bill_data, "bill_type", agent_type),
                       ocr_text  |-> Get(state.bill_data, "text", ""),
                       company   |-> Get(state.bill_data, "company", "Unknown"),
                       amount    |-> Get(state.bill_data, "amount", 0),
                       conversation_history |-> Get(state, "messages", <<>>) ]
                   out == WorkflowInvoke(agent_type, impl, specialist_state, rs)
               IN  IF out.raised
                     THEN SpecialistError(state,
                            "Specialist execution error: unsupported operand type(s) for *")
                     ELSE [state EXCEPT
                             !.negotiation_result = out.state,
                             !.confidence_score = Get(out.state, "confidence_score", 5000),
                             !.processing_status = "specialist_complete"]

\* the thresholds compared with > instead of >=
ExecutionModeStrict(confidence) ==
    IF confidence > CONFIDENCE_THRESHOLD_AUTO THEN "auto_execute"
    ELSE IF confidence > CONFIDENCE_THRESHOLD_SUPERVISED THEN "supervised"
    ELSE "human_handoff"

\* the mode evaluate_confidence returns
ExecutionMode(confidence) ==
    IF confidence >= CONFIDENCE_THRESHOLD_AUTO THEN "auto_execute"
    ELSE IF confidence >= CONFIDENCE_THRESHOLD_SUPERVISED THEN "supervised"
    ELSE "human_handoff"

\* evaluate_confidence that puts the status back to its initial value
evaluate_confidence_pending(state) ==
    Put(Put(state, "execution_mode", ExecutionMode(Get(state, "confidence_score", 0))),
        "processing_status", "pending")

\* the state evaluate_confidence leaves behind
\* evaluate_confidence that also records a status
evaluate_confidence_status(state) ==
    Put(Put(state, "execution_mode", ExecutionMode(Get(state, "confidence_score", 0))),
        "processing_status", "evaluated")

evaluate_confidence(state) ==
    Put(state, "execution_mode", ExecutionMode(Get(state, "confidence_score", 0)))

ResultField(state, k, default) == Get(Get(state, "negotiation_result", EmptyDict), k, default)

auto_execute_negotiation(state) ==
    Put(Put(state, "processing_status", "auto_ready"),
        "execution_instructions",
        [ mode |-> "automatic",
          confidence |-> Get(state, "confidence_score", 0),
          strategy |-> ResultField(state, "negotiation_strategy", Lit("")),
          script |-> ResultField(state, "script", Lit("")),
          target_savings |-> ResultField(state, "target_savings", EmptyDict),
          next_steps |-> <<"Execute negotiation script automatically",
                           "Monitor conversation progress",
                           "Apply fallback strategies if needed",
                           "Report results to user">> ])

\* the node "supervised" bound to the handler of "auto_execute"
supervised_as_automatic(state) == auto_execute_negotiation(state)

supervised_execution(state) ==
    Put(Put(state, "processing_status", "supervised_ready"),
        "execution_instructions",
        [ mode |-> "supervised",
          confidence |-> Get(state, "confidence_score", 0),
          strategy |-> ResultField(state, "negotiation_strategy", Lit("")),
          script |-> ResultField(state, "script", Lit("")),
          target_savings |-> ResultField(state, "target_savings", EmptyDict),
          supervision_required |-> <<"Review negotiation strategy before execution",
                                     "Monitor conversation in real-time",
                                     "Approve key negotiation points",
                                     "Intervene if conversation goes off-track">>,
          next_steps |-> <<"Present strategy for human review",
                           "Execute with human oversight",
                           "Confirm key decisions during negotiation",
                           "Report results to user">> ])

human_handoff(state) ==
    Put(Put(state, "processing_status", "human_handoff_ready"),
        "execution_instructions",
        [ mode |-> "human_handoff",
          confidence |-> Get(state, "confidence_score", 0),
          reason |-> "Low confidence score requires human intervention",
          available_analysis |->
              [ strategy |-> ResultField(state, "negotiation_strategy", Lit("")),
                script |-> ResultField(state, "script", Lit("")),
                potential_savings |-> ResultField(state, "target_savings", EmptyDict) ],
          recommendations |-> <<"Review AI-generated strategy and script",
                                "Conduct manual analysis of bill details",
                                "Research additional negotiation angles",
                                "Execute negotiation with human expertise",
                                "Use AI analysis as supporting information">>,
          next_steps |-> <<"Human review of all analysis",
                           "Manual negotiation execution",
                           "Optional use of AI-generated talking points",
                           "Human-driven strategy adjustments">> ])

\* finalize_processing reading state['bill_data']['company'] instead of
\* .get('company', 'Unknown')
FinalizeRaisesOnMissingCompany(state) ==
    \/ IsNone(Get(state, "bill_data", EmptyDict))
    \/ "company" \notin DOMAIN Get(state, "bill_data", EmptyDict)

\* finalize_processing raises where it calls .get on a bill_data that is
\* not a dict
FinalizeRaises(state) == IsNone(Get(state, "bill_data", EmptyDict))

finalize_processing(state) ==
    Put(Put(state, "processing_status", "complete"),
        "final_result",
        [ bill_type |-> Get(state, "agent_decision", "Unknown"),
          confidence_score |-> Get(state, "confidence_score", 0),
          execution_mode |-> Get(state, "execution_mode", "unknown"),
          company |-> Get(Get(state, "bill_data", EmptyDict), "company", "Unknown"),
          amount |-> Get(Get(state, "bill_data", EmptyDict), "amount", 0),
          negotiation_strategy |-> ResultField(state, "negotiation_strategy", Lit("")),
          negotiation_script |-> ResultField(state, "script", Lit("")),
          target_savings |-> ResultField(state, "target_savings", EmptyDict),
          execution_instructions |-> Get(state, "execution_instructions", EmptyDict),
          processing_errors |-> Get(state, "error_messages", <<>>) ])

(***************************************************************************)
(* State                                                                   *)
(***************************************************************************)
VARIABLES
    workflow,      \* MasterOrchestrator.workflow has been compiled
    utility_impl,  \* which utility_agent module the orchestrator imports
    bill,          \* the bill_data argument of the process_bill call
    pc,            \* position of the orchestrator run: "idle" or the next node
    state,         \* the NegotiationState of the run
    result,        \* what process_bill returned last
    trace,         \* the nodes the run has executed, in order
    calls,         \* the LLM calls the run has made, as <<agent, node>>
    failed,        \* those of them that raised
    agent,         \* the chain run stage by stage (router or a specialist)
    apc,           \* its next node, "END" or "raised"
    astate,        \* its state
    afailed        \* its nodes whose LLM call raised

orchVars == <<workflow, utility_impl, bill, pc, state, result, trace, calls, failed>>
agentVars == <<agent, apc, astate, afailed>>
vars == <<workflow, utility_impl, bill, pc, state, result, trace, calls, failed,
          agent, apc, astate, afailed>>

(***************************************************************************)
(* Inputs                                                                  *)
(***************************************************************************)
\* bill_data as the API layer and the scripts build it: the text may be
\* missing or empty, company and amount missing, None or known
BillRecords ==
    LET texts == {EmptyDict, [text |-> ""], [text |-> "ELECTRIC BILL"]}
        known == {EmptyDict,
                  [company |-> NoneStr, amount |-> NoneAmt],
                  [company |-> "City Power Company", amount |-> 12458]}
    IN  {Update(t, k) : t \in texts, k \in known}

\* the answers to the calls of one chain, one per LLM node and in node order
ChainAnswers(agent_type, impl, n) ==
    CASE agent_type = "UTILITY" /\ impl = "full" ->
           Answers(UsageWords, n) \X Answers({}, n) \X Answers(UtilityStrategyWords, n)
             \X Answers(UtilityScriptWords, n)
      [] agent_type = "UTILITY" /\ impl = "plan" ->
           Answers(UsageWords, n) \X Answers(ResearchWords, n) \X Answers({}, n)
      [] agent_type = "MEDICAL" ->
           Answers({}, n) \X Answers({}, n) \X Answers(MedicalStrategyWords, n)
             \X Answers({}, n)
      [] agent_type = "SUBSCRIPTION" ->
           Answers(SubscriptionTypeWords, n) \X Answers({}, n) \X Answers({}, n)
             \X Answers(SubscriptionStrategyWords, n) \X Answers({}, n)
      [] agent_type = "TELECOM" ->
           Answers(TelecomTypeWords, n) \X Answers({}, n) \X Answers({}, n)
             \X Answers(TelecomStrategyWords, n) \X Answers({}, n)
      [] OTHER -> {<<>>}

ChainNodes(agent_type, impl) ==
    CASE agent_type = "UTILITY" /\ impl = "full" -> UtilityNodes
      [] agent_type = "UTILITY" /\ impl = "plan" -> PlanNodes
      [] agent_type = "MEDICAL" -> MedicalNodes
      [] agent_type = "SUBSCRIPTION" -> SubscriptionNodes
      [] agent_type = "TELECOM" -> TelecomNodes
      [] OTHER -> <<>>

(***************************************************************************)
(* The orchestrator run, node by node                                      *)
(***************************************************************************)
\* the edges with "auto_execute" wired to "supervised"
EdgesMiswired(node) ==
    CASE node = "route" -> "execute"
      [] node = "execute" -> "evaluate"
      [] node = "auto_execute" -> "supervised"
      [] node = "supervised" -> "finalize"
      [] node = "human_handoff" -> "finalize"
      [] node = "finalize" -> "end"

\* the unconditional edges of the master graph
Edges(node) ==
    CASE node = "route" -> "execute"
      [] node = "execute" -> "evaluate"
      [] node = "auto_execute" -> "finalize"
      [] node = "supervised" -> "finalize"
      [] node = "human_handoff" -> "finalize"
      [] node = "finalize" -> "end"

\* the mapping of the conditional edge after "evaluate"
ConditionalEdges(mode) ==
    CASE mode = "auto_execute" -> "auto_execute"
      [] mode = "supervised" -> "supervised"
      [] mode = "human_handoff" -> "human_handoff"

\* what process_bill returns when workflow.invoke raises
FailedResult(msg) ==
    [ error |-> msg, processing_status |-> "failed", confidence_score |-> 0,
      execution_mode |-> "error" ]

Init ==
    /\ workflow = FALSE
    /\ utility_impl \in {"full", "plan"}
    /\ bill = EmptyDict
    /\ pc = "idle"
    /\ state = EmptyDict
    /\ result = EmptyDict
    /\ trace = <<>>
    /\ calls = {}
    /\ failed = {}
    /\ agent = "none"
    /\ apc = "none"
    /\ astate = EmptyDict
    /\ afailed = {}

\* process_bill up to workflow.invoke: lazy compilation, fresh state.  The
\* compilation stands before the try block: when create_master_orchestrator
\* raises, the exception leaves process_bill and self.workflow stays None
ProcessBill ==
    /\ pc = "idle"
    /\ \E bill_data \in BillRecords \cup {NoneDict}, built \in IF workflow THEN {TRUE} ELSE BOOLEAN :
         /\ bill' = bill_data
         /\ workflow' = built
         /\ IF built
              THEN /\ state' = NegotiationState(bill_data)
                   /\ pc' = "route"
                   /\ result' = EmptyDict
              ELSE /\ state' = EmptyDict
                   /\ pc' = "idle"
                   /\ result' = [exception |-> "create_master_orchestrator raised"]
    /\ trace' = <<>>
    /\ calls' = {}
    /\ failed' = {}
    /\ UNCHANGED <<utility_impl, agentVars>>

Route ==
    /\ pc = "route"
    /\ \E r1 \in ClassifyAnswers, r2 \in ExtractAnswers :
         LET called == RouterInvoked(state)
         IN  /\ state' = route_negotiation(state, r1, r2)
             /\ calls' = IF called
                           THEN calls \cup {<<"ROUTER", "route">>, <<"ROUTER", "extract">>}
                           ELSE calls
             /\ failed' = IF called
                            THEN failed \cup {<<"ROUTER", "route">> : x \in {r1} \ {y \in {r1} : y.ok}}
                                        \cup {<<"ROUTER", "extract">> : x \in {r2} \ {y \in {r2} : y.ok}}
                            ELSE failed
    /\ pc' = Edges("route")
    /\ trace' = Append(trace, "route")
    /\ UNCHANGED <<workflow, utility_impl, bill, result, agentVars>>

Execute ==
    /\ pc = "execute"
    /\ \E rs \in IF SpecialistInvoked(state)
                   THEN ChainAnswers(state.agent_decision, utility_impl, MaxWords)
                   ELSE {<<>>} :
         LET nodes == ChainNodes(state.agent_decision, utility_impl)
             llm == {i \in 1..Len(nodes) : i <= Len(rs)}
         IN  /\ state' = execute_specialist_agent(state, utility_impl, rs)
             /\ calls' = calls \cup {<<state.agent_decision, nodes[i]>> : i \in llm}
             /\ failed' = failed \cup {<<state.agent_decision, nodes[i]>> : i \in {j \in llm : ~rs[j].ok}}
    /\ pc' = Edges("execute")
    /\ trace' = Append(trace, "execute")
    /\ UNCHANGED <<workflow, utility_impl, bill, result, agentVars>>

\* the node "evaluate"
Evaluate ==
    /\ pc = "evaluate"
    /\ state' = evaluate_confidence(state)
    /\ pc' = "branch"
    /\ trace' = Append(trace, "evaluate")
    /\ UNCHANGED <<workflow, utility_impl, bill, result, calls, failed, agentVars>>

\* the conditional edge after "evaluate": evaluate_confidence is called again
\* and its return value names the next node
Branch ==
    /\ pc = "branch"
    /\ state' = evaluate_confidence(state)
    /\ pc' = ConditionalEdges(ExecutionMode(Get(state, "confidence_score", 0)))
    /\ UNCHANGED <<workflow, utility_impl, bill, result, trace, calls, failed, agentVars>>

AutoExecute ==
    /\ pc = "auto_execute"
    /\ state' = auto_execute_negotiation(state)
    /\ pc' = Edges("auto_execute")
    /\ trace' = Append(trace, "auto_execute")
    /\ UNCHANGED <<workflow, utility_impl, bill, result, calls, failed, agentVars>>

Supervised ==
    /\ pc = "supervised"
    /\ state' = supervised_execution(state)
    /\ pc' = Edges("supervised")
    /\ trace' = Append(trace, "supervised")
    /\ UNCHANGED <<workflow, utility_impl, bill, result, calls, failed, agentVars>>

HumanHandoff ==
    /\ pc = "human_handoff"
    /\ state' = human_handoff(state)
    /\ pc' = Edges("human_handoff")
    /\ trace' = Append(trace, "human_handoff")
    /\ UNCHANGED <<workflow, utility_impl, bill, result, calls, failed, agentVars>>

\* the node "finalize": it has set processing_status when building the
\* result raises
Finalize ==
    /\ pc = "finalize"
    /\ IF FinalizeRaises(state)
         THEN /\ state' = Put(state, "processing_status", "complete")
              /\ pc' = "raised"
         ELSE /\ state' = finalize_processing(state)
              /\ pc' = Edges("finalize")
    /\ trace' = Append(trace, "finalize")
    /\ UNCHANGED <<workflow, utility_impl, bill, result, calls, failed, agentVars>>

\* process_bill after workflow.invoke: return result.get('final_result', {})
Return ==
    /\ pc = "end"
    /\ result' = Get(state, "final_result", EmptyDict)
    /\ state' = EmptyDict
    /\ pc' = "idle"
    /\ UNCHANGED <<workflow, utility_impl, bill, trace, calls, failed, agentVars>>

\* process_bill when workflow.invoke raised: the except branch
ReturnFailed ==
    /\ pc = "raised"
    /\ result' = FailedResult("'NoneType' object has no attribute 'get'")
    /\ state' = EmptyDict
    /\ pc' = "idle"
    /\ UNCHANGED <<workflow, utility_impl, bill, trace, calls, failed, agentVars>>

Next ==
    \/ ProcessBill
    \/ Route
    \/ Execute
    \/ Evaluate
    \/ Branch
    \/ AutoExecute
    \/ Supervised
    \/ HumanHandoff
    \/ Finalize
    \/ Return
    \/ ReturnFailed

Spec == Init /\ [][Next]_vars

(***************************************************************************)
(* evaluate_confidence and the stages after it, on every confidence score  *)
(***************************************************************************)
\* a state as execute_specialist_agent leaves it; the scores are the
\* hundredths 0.00 .. MaxScore / 100 and the doubles next to the two
\* thresholds
InitEvaluate ==
    /\ workflow = TRUE
    /\ utility_impl = "full"
    /\ bill = [text |-> "ELECTRIC BILL"]
    /\ pc = "evaluate"
    /\ \E score \in {100 * i : i \in 0..MaxScore} \cup {4999, 5001, 7999, 8001} :
         state = [NegotiationState(bill) EXCEPT
                    !.agent_decision = "UTILITY",
                    !.confidence_score = score,
                    !.processing_status = "specialist_complete"]
    /\ result = EmptyDict
    /\ trace = <<"route", "execute">>
    /\ calls = {}
    /\ failed = {}
    /\ agent = "none"
    /\ apc = "none"
    /\ astate = EmptyDict
    /\ afailed = {}

NextEvaluate ==
    \/ Evaluate
    \/ Branch
    \/ AutoExecute
    \/ Supervised
    \/ HumanHandoff
    \/ Finalize
    \/ Return

SpecEvaluate == InitEvaluate /\ [][NextEvaluate]_vars

(***************************************************************************)
(* execute_specialist_agent and the stages after it, on every decision     *)
(***************************************************************************)
\* the state route_negotiation leaves for a bill with text; the decisions
\* include two that are no key of agent_workflows, and the amount may be
\* None
InitExecute ==
    /\ workflow = TRUE
    /\ utility_impl \in {"full", "plan"}
    /\ \E decision \in {"UTILITY", "MEDICAL", "INSURANCE", ""}, amount \in {12458, NoneAmt} :
         bill = [text |-> "ELECTRIC BILL", company |-> "City Power Company",
                 amount |-> amount, bill_type |-> decision]
    /\ pc = "execute"
    /\ state = [NegotiationState(bill) EXCEPT
                  !.agent_decision = bill.bill_type,
                  !.processing_status = "routed"]
    /\ result = EmptyDict
    /\ trace = <<"route">>
    /\ calls = {}
    /\ failed = {}
    /\ agent = "none"
    /\ apc = "none"
    /\ astate = EmptyDict
    /\ afailed = {}

NextExecute ==
    \/ Execute
    \/ Evaluate
    \/ Branch
    \/ AutoExecute
    \/ Supervised
    \/ HumanHandoff
    \/ Finalize
    \/ Return

SpecExecute == InitExecute /\ [][NextExecute]_vars

(***************************************************************************)
(* Concurrent process_bill runs on one MasterOrchestrator                  *)
(***************************************************************************)
\* the number of runs in flight
MaxRuns == 2

\* no run has started; in this specification bill, pc, state, result, trace
\* and calls hold one value per run, and calls[r] is the list of the answers
\* the LLM gave to the calls of run r
InitConcurrent ==
    /\ workflow = FALSE
    /\ utility_impl \in {"full", "plan"}
    /\ bill = [r \in 1..MaxRuns |-> EmptyDict]
    /\ pc = [r \in 1..MaxRuns |-> "idle"]
    /\ state = [r \in 1..MaxRuns |-> EmptyDict]
    /\ result = [r \in 1..MaxRuns |-> EmptyDict]
    /\ trace = [r \in 1..MaxRuns |-> <<>>]
    /\ calls = [r \in 1..MaxRuns |-> <<>>]
    /\ failed = {}
    /\ agent = "none"
    /\ apc = "none"
    /\ astate = EmptyDict
    /\ afailed = {}

\* self.workflow while create_master_orchestrator assembles the graph in
\* self.workflow itself and compiles it there at the end
create_master_orchestrator_in_place(self_workflow, node) ==
    CASE node = "create" -> FALSE
      [] node = "compile" -> TRUE

\* self.workflow after a step of create_master_orchestrator: the StateGraph
\* is assembled in the local variable workflow ("create"), and the one
\* assignment self.workflow = workflow.compile() publishes it ("compile")
create_master_orchestrator(self_workflow, node) ==
    CASE node = "create" -> self_workflow
      [] node = "compile" -> TRUE

\* the step of a run when NegotiationState took its error list from a default
\* shared by the instances: a new state starts with the entries other runs
\* have appended
NextConcurrentShared ==
    \E r \in 1..MaxRuns :
      LET s == state[r]
          node == pc[r]
          others == {state[q].error_messages : q \in {x \in 1..MaxRuns : "error_messages" \in DOMAIN state[x]}}
      IN  /\ node # "done"
          /\ \E bill_data \in IF node = "idle"
                                THEN {[text |-> "ELECTRIC BILL", company |-> "City Power Company",
                                       amount |-> 12458],
                                      [text |-> ""], NoneDict}
                                ELSE {EmptyDict},
                r1 \in IF node = "route"
                         THEN {LlmFail, LlmOk(Lit("MEDICAL")), LlmOk(Lit("TELECOM"))}
                         ELSE {LlmFail},
                r2 \in IF node = "route"
                         THEN {x \in ExtractAnswers : ~x.ok \/ Len(x.content) = 3}
                         ELSE {LlmFail},
                rs \in IF node = "execute" /\ SpecialistInvoked(s)
                         THEN {x \in ChainAnswers(s.agent_decision, utility_impl, 0) :
                                 \/ \A i \in DOMAIN x : x[i] = LlmFail
                                 \/ \A i \in DOMAIN x : x[i] = LlmOk(LlmText({}, FALSE))}
                         ELSE {<<>>} :
               /\ state' = [state EXCEPT ![r] =
                     CASE node \in {"idle", "create", "compile"} -> s
                       [] node = "start" ->
                            IF workflow
                              THEN [NegotiationState(bill[r]) EXCEPT
                                      !.error_messages =
                                          IF others = {} THEN <<>>
                                          ELSE CHOOSE e \in others :
                                                 \A f \in others : Len(f) <= Len(e)]
                              ELSE s
                       [] node = "route" -> route_negotiation(s, r1, r2)
                       [] node = "execute" -> execute_specialist_agent(s, utility_impl, rs)
                       [] node \in {"evaluate", "branch"} -> evaluate_confidence(s)
                       [] node = "auto_execute" -> auto_execute_negotiation(s)
                       [] node = "supervised" -> supervised_execution(s)
                       [] node = "human_handoff" -> human_handoff(s)
                       [] node = "finalize" ->
                            IF FinalizeRaises(s) THEN Put(s, "processing_status", "complete")
                            ELSE finalize_processing(s)
                       [] node \in {"end", "raised"} -> EmptyDict]
               /\ pc' = [pc EXCEPT ![r] =
                     CASE node = "idle" -> IF workflow THEN "start" ELSE "create"
                       [] node = "create" -> "compile"
                       [] node = "compile" -> "start"
                       [] node = "start" -> IF workflow THEN "route" ELSE "done"
                       [] node = "evaluate" -> "branch"
                       [] node = "branch" ->
                            ConditionalEdges(ExecutionMode(Get(s, "confidence_score", 0)))
                       [] node = "finalize" /\ FinalizeRaises(s) -> "raised"
                       [] node \in {"end", "raised"} -> "done"
                       [] OTHER -> Edges(node)]
               /\ result' = [result EXCEPT ![r] =
                     CASE node = "start" /\ ~workflow ->
                            FailedResult("'NoneType' object has no attribute 'invoke'")
                       [] node = "end" -> Get(s, "final_result", EmptyDict)
                       [] node = "raised" -> FailedResult("'NoneType' object has no attribute 'get'")
                       [] OTHER -> @]
               /\ bill' = [bill EXCEPT ![r] = IF node = "idle" THEN bill_data ELSE @]
               /\ calls' = [calls EXCEPT ![r] =
                     CASE node = "route" -> Append(@, <<r1, r2>>)
                       [] node = "execute" -> Append(@, rs)
                       [] OTHER -> @]
               /\ trace' = [trace EXCEPT ![r] =
                     IF node \in {"idle", "create", "start", "branch", "end", "raised"}
                       THEN @ ELSE Append(@, node)]
          /\ workflow' = IF node \in {"create", "compile"}
                            THEN create_master_orchestrator(workflow, node)
                            ELSE workflow
          /\ UNCHANGED <<utility_impl, failed, agentVars>>

\* one run takes its next step: process_bill tests self.workflow ("idle"),
\* builds and compiles the graph when it found none ("create", "compile"),
\* creates a fresh NegotiationState and reads self.workflow to invoke it
\* ("start"), runs the graph node by node, and returns at "end" or from the
\* except branch; the threads of the runs interleave between these steps, and
\* trace[r] records "compile" and the nodes run r has executed
NextConcurrent ==
    \E r \in 1..MaxRuns :
      LET s == state[r]
          node == pc[r]
          others == {state[q].error_messages : q \in {x \in 1..MaxRuns : "error_messages" \in DOMAIN state[x]}}
      IN  /\ node # "done"
          /\ \E bill_data \in IF node = "idle"
                                THEN {[text |-> "ELECTRIC BILL", company |-> "City Power Company",
                                       amount |-> 12458],
                                      [text |-> ""], NoneDict}
                                ELSE {EmptyDict},
                r1 \in IF node = "route"
                         THEN {LlmFail, LlmOk(Lit("MEDICAL")), LlmOk(Lit("TELECOM"))}
                         ELSE {LlmFail},
                r2 \in IF node = "route"
                         THEN {x \in ExtractAnswers : ~x.ok \/ Len(x.content) = 3}
                         ELSE {LlmFail},
                rs \in IF node = "execute" /\ SpecialistInvoked(s)
                         THEN {x \in ChainAnswers(s.agent_decision, utility_impl, 0) :
                                 \/ \A i \in DOMAIN x : x[i] = LlmFail
                                 \/ \A i \in DOMAIN x : x[i] = LlmOk(LlmText({}, FALSE))}
                         ELSE {<<>>} :
               /\ state' = [state EXCEPT ![r] =
                     CASE node \in {"idle", "create", "compile"} -> s
                       [] node = "start" ->
                            IF workflow THEN NegotiationState(bill[r]) ELSE s
                       [] node = "route" -> route_negotiation(s, r1, r2)
                       [] node = "execute" -> execute_specialist_agent(s, utility_impl, rs)
                       [] node \in {"evaluate", "branch"} -> evaluate_confidence(s)
                       [] node = "auto_execute" -> auto_execute_negotiation(s)
                       [] node = "supervised" -> supervised_execution(s)
                       [] node = "human_handoff" -> human_handoff(s)
                       [] node = "finalize" ->
                            IF FinalizeRaises(s) THEN Put(s, "processing_status", "complete")
                            ELSE finalize_processing(s)
                       [] node \in {"end", "raised"} -> EmptyDict]
               /\ pc' = [pc EXCEPT ![r] =
                     CASE node = "idle" -> IF workflow THEN "start" ELSE "create"
                       [] node = "create" -> "compile"
                       [] node = "compile" -> "start"
                       [] node = "start" -> IF workflow THEN "route" ELSE "done"
                       [] node = "evaluate" -> "branch"
                       [] node = "branch" ->
                            ConditionalEdges(ExecutionMode(Get(s, "confidence_score", 0)))
                       [] node = "finalize" /\ FinalizeRaises(s) -> "raised"
                       [] node \in {"end", "raised"} -> "done"
                       [] OTHER -> Edges(node)]
               /\ result' = [result EXCEPT ![r] =
                     CASE node = "start" /\ ~workflow ->
                            FailedResult("'NoneType' object has no attribute 'invoke'")
                       [] node = "end" -> Get(s, "final_result", EmptyDict)
                       [] node = "raised" -> FailedResult("'NoneType' object has no attribute 'get'")
                       [] OTHER -> @]
               /\ bill' = [bill EXCEPT ![r] = IF node = "idle" THEN bill_data ELSE @]
               /\ calls' = [calls EXCEPT ![r] =
                     CASE node = "route" -> Append(@, <<r1, r2>>)
                       [] node = "execute" -> Append(@, rs)
                       [] OTHER -> @]
               /\ trace' = [trace EXCEPT ![r] =
                     IF node \in {"idle", "create", "start", "branch", "end", "raised"}
                       THEN @ ELSE Append(@, node)]
          /\ workflow' = IF node \in {"create", "compile"}
                            THEN create_master_orchestrator(workflow, node)
                            ELSE workflow
          /\ UNCHANGED <<utility_impl, failed, agentVars>>

SpecConcurrent == InitConcurrent /\ [][NextConcurrent]_vars

(***************************************************************************)
(* The router chain and the specialist chains, stage by stage              *)
(***************************************************************************)

\* the amounts the chains are run on: nothing, one cent, a small bill, a bill above
\* the medical 1000 threshold, and None
AgentAmounts == {0, 1, 1999, 245000, NoneAmt}

\* the state a specialist graph is invoked with
SpecialistState(bill_type, amount) ==
    [ bill_type |-> bill_type, ocr_text |-> "NETFLIX PREMIUM", company |-> "Netflix",
      amount |-> amount, conversation_history |-> <<>> ]

AgentInitialStates(kind) ==
    CASE kind = "ROUTER" -> {RouterInitialState("NETFLIX PREMIUM")}
      [] kind = "UTILITY_PLAN" -> {SpecialistState("UTILITY", a) : a \in AgentAmounts}
      [] kind = "MEDICAL" ->
           {SpecialistState(kind, a) : a \in AgentAmounts}
             \cup {Put(SpecialistState(kind, a), "has_errors", TRUE) : a \in AgentAmounts}
      [] OTHER -> {SpecialistState(kind, a) : a \in AgentAmounts}

EntryPoint(kind) ==
    CASE kind = "ROUTER" -> RouterNodes[1]
      [] kind = "UTILITY" -> UtilityNodes[1]
      [] kind = "UTILITY_PLAN" -> PlanNodes[1]
      [] kind = "MEDICAL" -> MedicalNodes[1]
      [] kind = "SUBSCRIPTION" -> SubscriptionNodes[1]
      [] kind = "TELECOM" -> TelecomNodes[1]

InitAgent ==
    /\ workflow = FALSE
    /\ utility_impl = "full"
    /\ bill = EmptyDict
    /\ pc = "off"
    /\ state = EmptyDict
    /\ result = EmptyDict
    /\ trace = <<>>
    /\ calls = {}
    /\ failed = {}
    /\ agent \in {"ROUTER", "UTILITY", "UTILITY_PLAN", "MEDICAL", "SUBSCRIPTION", "TELECOM"}
    /\ astate \in AgentInitialStates(agent)
    /\ apc = EntryPoint(agent)
    /\ afailed = {}

\* what a node that calls the LLM once leaves behind: s is the state the
\* stage function returns, r the outcome of its call, next the node its
\* edge leads to
Step(s, r, node, next) ==
    /\ astate' = s
    /\ afailed' = IF r.ok THEN afailed ELSE afailed \cup {node}
    /\ apc' = next
    /\ UNCHANGED <<agent, orchVars>>

\* what the savings node leaves behind: s is the state it returns; it makes
\* no LLM call and raises on a None amount
SavingsStep(s) ==
    /\ IF SavingsRaises(astate)
         THEN astate' = astate /\ apc' = "raised"
         ELSE astate' = s /\ apc' = "END"
    /\ UNCHANGED <<agent, afailed, orchVars>>

RouterRoute ==
    /\ agent = "ROUTER"
    /\ apc = "route"
    /\ \E r \in ClassifyAnswers :
         Step(route_bill(astate, r), r, "route", "extract")

RouterExtract ==
    /\ agent = "ROUTER"
    /\ apc = "extract"
    /\ \E r \in ExtractAnswers :
         Step(extract_bill_details(astate, r), r, "extract", "END")

UtilityAnalyseUsage ==
    /\ agent = "UTILITY"
    /\ apc = "analyse_usage"
    /\ \E r \in AllAnswers(UsageWords) :
         Step(analyse_usage_history(astate, r), r, "analyse_usage", "research_competitors")

UtilityResearchCompetitors ==
    /\ agent = "UTILITY"
    /\ apc = "research_competitors"
    /\ \E r \in AllAnswers({}) :
         Step(research_competitors(astate, r), r, "research_competitors", "generate_strategy")

UtilityGenerateStrategy ==
    /\ agent = "UTILITY"
    /\ apc = "generate_strategy"
    /\ \E r \in AllAnswers(UtilityStrategyWords) :
         Step(generate_negotiation_strategy(astate, r), r, "generate_strategy", "create_script")

UtilityCreateScript ==
    /\ agent = "UTILITY"
    /\ apc = "create_script"
    /\ \E r \in AllAnswers(UtilityScriptWords) :
         Step(create_negotiation_script(astate, r), r, "create_script", "calculate_savings")

UtilityCalculateSavings ==
    /\ agent = "UTILITY"
    /\ apc = "calculate_savings"
    /\ SavingsStep(calculate_savings_potential(astate))

PlanAnalyseUsage ==
    /\ agent = "UTILITY_PLAN"
    /\ apc = "analyse_usage_history"
    /\ \E r \in AllAnswers(UsageWords) :
         Step(plan_analyse_usage_history(astate, r), r, "analyse_usage_history", "research_competitors")

PlanResearchCompetitors ==
    /\ agent = "UTILITY_PLAN"
    /\ apc = "research_competitors"
    /\ \E r \in AllAnswers(ResearchWords) :
         Step(plan_research_competitors(astate, r), r, "research_competitors", "generate_plan")

PlanGeneratePlan ==
    /\ agent = "UTILITY_PLAN"
    /\ apc = "generate_plan"
    /\ \E r \in AllAnswers({}) :
         Step(generate_negotiation_plan(astate, r), r, "generate_plan", "END")

MedicalCheckErrors ==
    /\ agent = "MEDICAL"
    /\ apc = "check_errors"
    /\ \E r \in AllAnswers({}) :
         Step(check_billing_errors(astate, r), r, "check_errors", "assess_hardship")

MedicalAssessHardship ==
    /\ agent = "MEDICAL"
    /\ apc = "assess_hardship"
    /\ \E r \in AllAnswers({}) :
         Step(assess_financial_hardship(astate, r), r, "assess_hardship", "generate_strategy")

MedicalGenerateStrategy ==
    /\ agent = "MEDICAL"
    /\ apc = "generate_strategy"
    /\ \E r \in AllAnswers(MedicalStrategyWords) :
         Step(generate_medical_strategy(astate, r), r, "generate_strategy", "create_script")

MedicalCreateScript ==
    /\ agent = "MEDICAL"
    /\ apc = "create_script"
    /\ \E r \in AllAnswers({}) :
         Step(create_medical_script(astate, r), r, "create_script", "calculate_savings")

MedicalCalculateSavings ==
    /\ agent = "MEDICAL"
    /\ apc = "calculate_savings"
    /\ SavingsStep(calculate_medical_savings(astate))

SubscriptionIdentifyType ==
    /\ agent = "SUBSCRIPTION"
    /\ apc = "identify_type"
    /\ \E r \in Answers(SubscriptionTypeWords, MaxTypeWords) :
         Step(identify_subscription_type(astate, r), r, "identify_type", "analyse_usage")

SubscriptionAnalyseUsage ==
    /\ agent = "SUBSCRIPTION"
    /\ apc = "analyse_usage"
    /\ \E r \in AllAnswers({}) :
         Step(analyse_usage_patterns(astate, r), r, "analyse_usage", "research_alternatives")

SubscriptionResearchAlternatives ==
    /\ agent = "SUBSCRIPTION"
    /\ apc = "research_alternatives"
    /\ \E r \in AllAnswers({}) :
         Step(research_alternatives(astate, r), r, "research_alternatives", "generate_strategy")

SubscriptionGenerateStrategy ==
    /\ agent = "SUBSCRIPTION"
    /\ apc = "generate_strategy"
    /\ \E r \in AllAnswers(SubscriptionStrategyWords) :
         Step(generate_subscription_strategy(astate, r), r, "generate_strategy", "create_script")

SubscriptionCreateScript ==
    /\ agent = "SUBSCRIPTION"
    /\ apc = "create_script"
    /\ \E r \in AllAnswers({}) :
         Step(create_subscription_script(astate, r), r, "create_script", "calculate_savings")

SubscriptionCalculateSavings ==
    /\ agent = "SUBSCRIPTION"
    /\ apc = "calculate_savings"
    /\ SavingsStep(calculate_subscription_savings(astate))

TelecomIdentifyServices ==
    /\ agent = "TELECOM"
    /\ apc = "identify_services"
    /\ \E r \in Answers(TelecomTypeWords, MaxTypeWords) :
         Step(identify_telecom_services(astate, r), r, "identify_services", "analyse_usage")

TelecomAnalyseUsage ==
    /\ agent = "TELECOM"
    /\ apc = "analyse_usage"
    /\ \E r \in AllAnswers({}) :
         Step(analyse_usage_and_needs(astate, r), r, "analyse_usage", "research_competitors")

TelecomResearchCompetitors ==
    /\ agent = "TELECOM"
    /\ apc = "research_competitors"
    /\ \E r \in AllAnswers({}) :
         Step(research_competitor_offers(astate, r), r, "research_competitors", "generate_strategy")

TelecomGenerateStrategy ==
    /\ agent = "TELECOM"
    /\ apc = "generate_strategy"
    /\ \E r \in AllAnswers(TelecomStrategyWords) :
         Step(generate_telecom_strategy(astate, r), r, "generate_strategy", "create_script")

TelecomCreateScript ==
    /\ agent = "TELECOM"
    /\ apc = "create_script"
    /\ \E r \in AllAnswers({}) :
         Step(create_telecom_script(astate, r), r, "create_script", "calculate_savings")

TelecomCalculateSavings ==
    /\ agent = "TELECOM"
    /\ apc = "calculate_savings"
    /\ SavingsStep(calculate_telecom_savings(astate))

NextAgent ==
    \/ RouterRoute
    \/ RouterExtract
    \/ UtilityAnalyseUsage
    \/ UtilityResearchCompetitors
    \/ UtilityGenerateStrategy
    \/ UtilityCreateScript
    \/ UtilityCalculateSavings
    \/ PlanAnalyseUsage
    \/ PlanResearchCompetitors
    \/ PlanGeneratePlan
    \/ MedicalCheckErrors
    \/ MedicalAssessHardship
    \/ MedicalGenerateStrategy
    \/ MedicalCreateScript
    \/ MedicalCalculateSavings
    \/ SubscriptionIdentifyType
    \/ SubscriptionAnalyseUsage
    \/ SubscriptionResearchAlternatives
    \/ SubscriptionGenerateStrategy
    \/ SubscriptionCreateScript
    \/ SubscriptionCalculateSavings
    \/ TelecomIdentifyServices
    \/ TelecomAnalyseUsage
    \/ TelecomResearchCompetitors
    \/ TelecomGenerateStrategy
    \/ TelecomCreateScript
    \/ TelecomCalculateSavings

SpecAgent == InitAgent /\ [][NextAgent]_vars

(***************************************************************************)
(* Properties of the orchestrator run                                      *)
(***************************************************************************)
\* the fields of a NegotiationResult
ResultFields ==
    {"bill_type", "confidence_score", "execution_mode", "company", "amount",
     "negotiation_strategy", "negotiation_script", "target_savings",
     "execution_instructions", "processing_errors"}

\* process_bill has returned the result of a run that reached the end
Completed == pc = "idle" /\ "execution_instructions" \in DOMAIN result

TerminalNodes == {"auto_execute", "supervised", "human_handoff"}

\* C1: for every confidence score evaluate_confidence selects exactly one
\* mode: auto_execute when score >= 0.8, supervised when 0.5 <= score < 0.8,
\* human_handoff when score < 0.5, and the branch follows that mode.
C1_ThresholdModes ==
    (pc \in {"branch"} \cup TerminalNodes) =>
        LET score == state.confidence_score
            mode == state.execution_mode
        IN  /\ mode \in TerminalNodes
            /\ (mode = "auto_execute") <=> (score >= 8000)
            /\ (mode = "supervised") <=> (score >= 5000 /\ score < 8000)
            /\ (mode = "human_handoff") <=> (score < 5000)
            /\ (pc # "branch") => (pc = mode)

\* a score of exactly 0.8 has been sent to auto_execute
C1_Witness ==
    /\ pc = "auto_execute"
    /\ state.confidence_score = 8000
    /\ state.execution_mode = "auto_execute"

\* the three orders in which a run may execute its stages
StageOrders ==
    { <<"route", "execute", "evaluate", t, "finalize">> : t \in TerminalNodes }

IsPrefix(s, t) == Len(s) <= Len(t) /\ \A i \in 1..Len(s) : s[i] = t[i]

\* C2: every run executes route, execute, evaluate, exactly one terminal
\* stage, finalize, in that order, each once, and ends after finalize.
C2_StageOrder ==
    /\ \E o \in StageOrders : IsPrefix(trace, o)
    /\ pc = "route" => Len(trace) = 0
    /\ pc = "execute" => Len(trace) = 1
    /\ pc = "evaluate" => Len(trace) = 2
    /\ pc \in {"branch"} \cup TerminalNodes => Len(trace) = 3
    /\ pc = "finalize" => Len(trace) = 4
    /\ pc \in {"end", "raised"} => Len(trace) = 5
    /\ (pc = "idle" /\ workflow) => Len(trace) = 5

\* a run has ended after the supervised stage
C2_Witness ==
    /\ pc = "end"
    /\ trace = <<"route", "execute", "evaluate", "supervised", "finalize">>

\* C3: in every result produced by finalize, execution_mode is the mode the
\* thresholds give to confidence_score, execution_instructions.mode is the
\* label of that mode and of the terminal stage that ran, and
\* execution_instructions.confidence is confidence_score.
C3_ModeIndicatorsAgree ==
    Completed =>
        LET score == result.confidence_score
            mode == result.execution_mode
            instructions == result.execution_instructions
        IN  /\ mode = IF score >= 8000 THEN "auto_execute"
                      ELSE IF score >= 5000 THEN "supervised"
                      ELSE "human_handoff"
            /\ trace[4] = mode
            /\ instructions.mode = CASE mode = "auto_execute" -> "automatic"
                                     [] mode = "supervised" -> "supervised"
                                     [] mode = "human_handoff" -> "human_handoff"
            /\ instructions.confidence = score

\* a supervised result has been returned
C3_Witness ==
    /\ Completed
    /\ result.execution_mode = "supervised"
    /\ result.execution_instructions.mode = "supervised"
    /\ result.confidence_score >= 5000

\* every LLM call of the run that has returned raised
AllCallsFailed == pc = "idle" /\ calls # {} /\ failed = calls

\* C4: when the LLM raises on every call of a run, the run completes with
\* execution_mode human_handoff and a non-empty processing_errors.
C4_AllFailHandoffWithErrors ==
    AllCallsFailed =>
        /\ Completed
        /\ result.execution_mode = "human_handoff"
        /\ Len(result.processing_errors) > 0

\* C5: when at least one LLM call of a run fails, the run ends with
\* execution_mode human_handoff.
C5_AnyFailureHandsOff ==
    (Completed /\ failed # {}) => result.execution_mode = "human_handoff"

\* C6: process_bill on a bill record terminates without raising: no stage
\* raises, the specialist stage returns on every pattern of LLM answers and
\* failures, every other stage can be taken, the run has at most five
\* stages, finalize builds all ten result fields, with the defaults for what
\* no stage produced, and the caller receives them.
C6_AlwaysCompleteResult ==
    ~IsNone(bill) =>
        /\ pc # "raised"
        /\ Len(trace) <= 5
        /\ pc = "execute" =>
             \A rs \in ChainAnswers(state.agent_decision, utility_impl, MaxWords) :
                 execute_specialist_agent(state, utility_impl, rs).processing_status
                     \in {"specialist_complete", "specialist_error"}
        /\ pc \notin {"idle", "execute"} => ENABLED Next
        /\ pc = "end" =>
             LET final == state.final_result
                 produced == state.negotiation_result
             IN  /\ DOMAIN final = ResultFields
                 /\ "negotiation_strategy" \notin DOMAIN produced
                      => final.negotiation_strategy = Lit("")
                 /\ "script" \notin DOMAIN produced => final.negotiation_script = Lit("")
                 /\ "target_savings" \notin DOMAIN produced
                      => final.target_savings = EmptyDict
                 /\ "company" \notin DOMAIN state.bill_data => final.company = "Unknown"
                 /\ "amount" \notin DOMAIN state.bill_data => final.amount = 0
        /\ (pc = "idle" /\ workflow) => DOMAIN result = ResultFields

\* a bill without text, company or amount has been answered with a complete
\* result that holds the defaults
C6_Witness ==
    /\ pc = "idle"
    /\ workflow
    /\ bill = EmptyDict
    /\ DOMAIN result = ResultFields
    /\ result.company = "Unknown"
    /\ result.amount = 0
    /\ result.negotiation_script = Lit("")

\* C7: every failed LLM call of a run adds an entry to the error list, so
\* processing_errors has at least one entry per failed stage.
C7_FailuresRecorded ==
    Completed => Len(result.processing_errors) >= Cardinality(failed)

\* the run is on a bill record whose OCR text is missing or empty
RouteFails == workflow /\ ~IsNone(bill) /\ Get(bill, "text", "") = ""

\* C12: when the route stage fails (missing or empty OCR text) it appends an
\* entry to the error list and sets the bill type to UTILITY, and the run
\* goes on through execute, evaluate, one terminal stage and finalize to a
\* returned result.
C12_RouteFailureContinues ==
    RouteFails =>
        /\ pc # "raised"
        /\ pc \notin {"idle", "route"} =>
              /\ trace[1] = "route"
              /\ Len(state.error_messages) >= 1
              /\ state.error_messages[1] = "Routing error: No OCR text provided in bill data"
              /\ state.agent_decision = "UTILITY"
              /\ ENABLED Next
        /\ pc = "idle" =>
              /\ trace \in StageOrders
              /\ Completed
              /\ result.bill_type = "UTILITY"
              /\ Len(result.processing_errors) >= 1
              /\ result.processing_errors[1] = "Routing error: No OCR text provided in bill data"

\* a bill without text has been answered, through the supervised stage, with
\* a UTILITY result that carries the routing error
C12_Witness ==
    /\ RouteFails
    /\ Completed
    /\ trace = <<"route", "execute", "evaluate", "supervised", "finalize">>
    /\ result.bill_type = "UTILITY"
    /\ result.processing_errors = <<"Routing error: No OCR text provided in bill data">>

\* C14: when constructing or invoking the orchestrator workflow raises
\* during process_bill, the caller sees no exception but the degenerate
\* result: processing_status 'failed', confidence_score 0.0, execution_mode
\* 'error'
C14_FailuresReturnDegenerate ==
    /\ pc = "raised" => ENABLED ReturnFailed
    /\ (pc = "idle" /\ DOMAIN result \cap {"exception", "error"} # {}) =>
          /\ "exception" \notin DOMAIN result
          /\ result.processing_status = "failed"
          /\ result.confidence_score = 0
          /\ result.execution_mode = "error"

\* the decision the run was executed on
Decision == IF pc = "idle" THEN Get(result, "bill_type", "<none>") ELSE state.agent_decision

\* agent_workflows.get(agent_type) finds nothing
LookupMisses == Decision \notin agent_workflows

\* selected_workflow.invoke raises: the chain ends with a savings stage and
\* the amount is None
InvocationRaises ==
    LET nodes == ChainNodes(Decision, utility_impl)
    IN  /\ Len(nodes) >= 1
        /\ nodes[Len(nodes)] = "calculate_savings"
        /\ bill.amount = NoneAmt

\* the entry execute_specialist_agent appends for the failure
SpecialistEntry ==
    IF LookupMisses
      THEN "Specialist execution error: Unknown agent type: " \o Decision
      ELSE "Specialist execution error: unsupported operand type(s) for *"

\* C13: when the specialist lookup misses or the specialist's invocation
\* raises, execute_specialist_agent sets the confidence to 0.0 and appends an
\* entry to the error list; the run then goes through human_handoff, and the
\* result it returns has execution_mode human_handoff and that entry in
\* processing_errors
C13_SpecialistFailureHandsOff ==
    (LookupMisses \/ InvocationRaises) =>
        /\ pc # "raised"
        /\ pc \notin {"idle", "execute"} =>
              /\ trace[2] = "execute"
              /\ state.error_messages = <<SpecialistEntry>>
              /\ state.negotiation_result.strategy = Lit("Error occurred during processing")
        /\ pc = "evaluate" => state.processing_status = "specialist_error"
        /\ pc \in {"evaluate", "branch", "human_handoff"} => state.confidence_score = 0
        /\ pc \in TerminalNodes => pc = "human_handoff"
        /\ pc = "idle" =>
              /\ Completed
              /\ trace = <<"route", "execute", "evaluate", "human_handoff", "finalize">>
              /\ result.execution_mode = "human_handoff"
              /\ result.confidence_score = 0
              /\ result.processing_errors = <<SpecialistEntry>>

\* a run on a decision without a workflow has returned a human_handoff
\* result carrying the specialist's entry
C13_Witness ==
    /\ pc = "idle"
    /\ Completed
    /\ LookupMisses
    /\ Decision = "INSURANCE"
    /\ result.execution_mode = "human_handoff"
    /\ result.processing_errors = <<SpecialistEntry>>

\* what process_bill returns for a bill when it runs alone and the LLM gives
\* the answers a to its calls: a[1] to the router's two calls, a[2] to the
\* calls of the specialist
IsolatedResult(b, a) ==
    LET routed == route_negotiation(NegotiationState(b), a[1][1], a[1][2])
        executed == execute_specialist_agent(routed, utility_impl, a[2])
        evaluated == evaluate_confidence(evaluate_confidence(executed))
        mode == ExecutionMode(Get(evaluated, "confidence_score", 0))
        prepared == CASE mode = "auto_execute" -> auto_execute_negotiation(evaluated)
                      [] mode = "supervised" -> supervised_execution(evaluated)
                      [] mode = "human_handoff" -> human_handoff(evaluated)
    IN  IF FinalizeRaises(prepared)
          THEN FailedResult("'NoneType' object has no attribute 'get'")
          ELSE finalize_processing(prepared).final_result

\* C22: for any interleaving of the stages of concurrent process_bill runs
\* on one MasterOrchestrator, runs that follow one another included, each
\* run's result depends only on its own bill record and on the LLM responses
\* to its own calls: it is the result the run gives alone, and a run in
\* flight holds no error entry, bill data or stage output of another run
C22_RunsAreIndependent ==
    \A r \in 1..MaxRuns :
        /\ pc[r] = "done" => result[r] = IsolatedResult(bill[r], calls[r])
        /\ pc[r] = "execute" =>
              state[r] = route_negotiation(NegotiationState(bill[r]), calls[r][1][1], calls[r][1][2])
        /\ pc[r] = "evaluate" =>
              state[r] = execute_specialist_agent(
                           route_negotiation(NegotiationState(bill[r]),
                                             calls[r][1][1], calls[r][1][2]),
                           utility_impl, calls[r][2])

\* two runs have returned: the first, on a bill without text, carries its
\* routing error; the second, on a TELECOM bill, carries no error
C22_Witness ==
    /\ pc[1] = "done"
    /\ pc[2] = "done"
    /\ bill[1] = [text |-> ""]
    /\ result[1].processing_errors = <<"Routing error: No OCR text provided in bill data">>
    /\ Get(bill[2], "text", "") = "ELECTRIC BILL"
    /\ result[2].bill_type = "TELECOM"
    /\ result[2].processing_errors = <<>>

\* the bill record of the run supplies a known company and a known amount
KnownCompanyAndAmount ==
    /\ ~IsNone(bill)
    /\ Get(bill, "company", NoneStr) # NoneStr
    /\ Get(bill, "amount", NoneAmt) # NoneAmt

\* C23: when the bill record supplies a known company and a known amount,
\* the result's company and amount are the supplied values, whatever the
\* router's extraction stage returns or however it fails
C23_SuppliedValuesKept ==
    (Completed /\ KnownCompanyAndAmount) =>
        /\ result.company = bill.company
        /\ result.amount = bill.amount

\* an extraction answer without a 'Company:' line and without an 'Amount:'
\* line that holds a number
NothingExtracted(r) ==
    /\ r.ok
    /\ \A i \in 1..Len(r.content) :
          /\ r.content[i].prefix # "Company:"
          /\ r.content[i].prefix = "Amount:" =>
                LET m == ParseAmount(r.content[i].chars) IN ~m.matched \/ m.error

\* C24: when the router's extraction finds no 'Company:' line and no
\* parsable 'Amount:' line in the LLM response, the run's company is
\* "Unknown" and its amount 0.0, the result reports them, and nothing is
\* added to the error list
C24_ExtractionDefaults ==
    (pc = "route" /\ RouterInvoked(state)) =>
        \A r1 \in ClassifyAnswers, r2 \in {r \in ExtractAnswers : NothingExtracted(r)} :
            LET routed == route_negotiation(state, r1, r2)
            IN  /\ routed.bill_data.company = "Unknown"
                /\ routed.bill_data.amount = 0
                /\ routed.error_messages = state.error_messages
                /\ finalize_processing(routed).final_result.company = "Unknown"
                /\ finalize_processing(routed).final_result.amount = 0

\* C29: when the specialist lookup misses or the specialist invocation
\* raises, the result carries an empty negotiation_strategy and an empty
\* negotiation_script
C29_ErrorStubIsEmpty ==
    (Completed /\ (LookupMisses \/ InvocationRaises)) =>
        /\ result.negotiation_strategy = Lit("")
        /\ result.negotiation_script = Lit("")

\* C28: the evaluate_confidence stage changes no state field other than
\* execution_mode, and evaluating it again on the same state, as the branch
\* function does, returns the same mode and leaves the state as it was
C28_EvaluateOnlySetsMode ==
    [][(pc \in {"evaluate", "branch"} =>
         /\ DOMAIN state' = DOMAIN state \cup {"execution_mode"}
         /\ \A f \in DOMAIN state \ {"execution_mode"} : state'[f] = state[f]
         /\ pc = "branch" =>
               /\ state' = state
               /\ pc' = state.execution_mode
               /\ evaluate_confidence(state') = state')]_vars

\* a run has been evaluated twice, as node and as branch function, and has
\* reached the supervised stage with the status its specialist stage left
C28_Witness ==
    /\ pc = "supervised"
    /\ trace = <<"route", "execute", "evaluate">>
    /\ state.execution_mode = "supervised"
    /\ state.processing_status = "specialist_complete"
    /\ state.error_messages = <<>>

(***************************************************************************)
(* Properties of the chains                                                *)
(***************************************************************************)
\* the nodes of the chain run stage by stage
NodesOf(kind) ==
    CASE kind = "ROUTER" -> RouterNodes
      [] kind = "UTILITY" -> UtilityNodes
      [] kind = "UTILITY_PLAN" -> PlanNodes
      [] kind = "MEDICAL" -> MedicalNodes
      [] kind = "SUBSCRIPTION" -> SubscriptionNodes
      [] kind = "TELECOM" -> TelecomNodes
      [] OTHER -> <<>>

\* the state field each node writes its output to, in node order
OutputFields(kind) ==
    CASE kind = "ROUTER" -> <<"bill_type", "company">>
      [] kind = "UTILITY" ->
           <<"usage_analysis", "competitor_research", "negotiation_strategy", "script",
             "target_savings">>
      [] kind = "UTILITY_PLAN" ->
           <<"usage_analysis", "competitor_research", "negotiation_strategy">>
      [] kind = "MEDICAL" ->
           <<"error_analysis", "financial_assistance", "negotiation_strategy", "script",
             "target_savings">>
      [] kind = "SUBSCRIPTION" ->
           <<"subscription_analysis", "usage_analysis", "alternatives_research",
             "negotiation_strategy", "script", "target_savings">>
      [] kind = "TELECOM" ->
           <<"service_analysis", "usage_analysis", "competitor_research",
             "negotiation_strategy", "script", "target_savings">>
      [] OTHER -> <<>>

\* what each node that calls the LLM writes to that field when the call
\* raises, in node order
Sentinels(kind) ==
    CASE kind = "ROUTER" -> <<"UTILITY", "Unknown">>
      [] kind = "UTILITY" ->
           <<Lit("Analysis unavailable"), Lit("Competitor research unavailable"),
             Lit("Strategy generation failed"), Lit("Script generation failed")>>
      [] kind = "UTILITY_PLAN" ->
           <<Lit("Analysis unavailable"), Lit("Research unavailable"),
             Lit("Unable to generate strategy")>>
      [] kind = "MEDICAL" ->
           <<Lit("Analysis unavailable"), Lit("Financial assistance assessment unavailable"),
             Lit("Strategy generation failed"), Lit("Script generation failed")>>
      [] kind = "SUBSCRIPTION" ->
           <<Lit("Analysis unavailable"), Lit("Usage analysis unavailable"),
             Lit("Alternatives research unavailable"), Lit("Strategy generation failed"),
             Lit("Script generation failed")>>
      [] kind = "TELECOM" ->
           <<Lit("Analysis unavailable"), Lit("Usage analysis unavailable"),
             Lit("Competitor research unavailable"), Lit("Strategy generation failed"),
             Lit("Script generation failed")>>
      [] OTHER -> <<>>

\* C8: in the router chain and in every specialist chain an LLM failure never
\* halts the chain: the failing stage has written its sentinel to its own
\* output field, the next stage can run, a chain stops early only on a None
\* amount, and the final state holds the output of every stage.
C8_FailureNeverHalts ==
    /\ \A i \in 1..Len(Sentinels(agent)) :
         NodesOf(agent)[i] \in afailed =>
             /\ OutputFields(agent)[i] \in DOMAIN astate
             /\ astate[OutputFields(agent)[i]] = Sentinels(agent)[i]
    /\ apc \notin {"none", "END", "raised"} => ENABLED NextAgent
    /\ apc = "raised" => astate.amount = NoneAmt
    /\ apc = "END" =>
         \A i \in 1..Len(OutputFields(agent)) : OutputFields(agent)[i] \in DOMAIN astate

\* a telecom chain whose five LLM calls all raised has reached its end with
\* its savings computed
C8_Witness ==
    /\ agent = "TELECOM"
    /\ apc = "END"
    /\ afailed = {"identify_services", "analyse_usage", "research_competitors",
                  "generate_strategy", "create_script"}
    /\ "target_savings" \in DOMAIN astate

Specialists == {"UTILITY", "UTILITY_PLAN", "MEDICAL", "SUBSCRIPTION", "TELECOM"}

\* C9: in a specialist chain the confidence_score, once written, lies between
\* 0.0 and the ceiling of the agent: 0.9 for Medical and Subscription, 0.95
\* for Utility and Telecom.
C9_ConfidenceCeiling ==
    (agent \in Specialists /\ "confidence_score" \in DOMAIN astate) =>
        /\ astate.confidence_score >= 0
        /\ astate.confidence_score <= 9500
        /\ agent \in {"MEDICAL", "SUBSCRIPTION"} => astate.confidence_score <= 9000

\* a utility chain has ended at the ceiling 0.95
C9_Witness ==
    /\ agent = "UTILITY"
    /\ apc = "END"
    /\ astate.confidence_score = 9500

\* C10: within one chain run a stage never lowers a confidence_score that
\* has been written.
C10_ConfidenceNeverLowered ==
    [][("confidence_score" \in DOMAIN astate) =>
         /\ "confidence_score" \in DOMAIN astate'
         /\ astate'.confidence_score >= astate.confidence_score]_vars

\* a utility chain whose script call raised has ended with the confidence
\* its first stage wrote
C10_Witness ==
    /\ agent = "UTILITY"
    /\ apc = "END"
    /\ afailed = {"create_script"}
    /\ astate.confidence_score = 8500

\* C11: after the router's classify stage bill_type is one of UTILITY,
\* MEDICAL, SUBSCRIPTION, TELECOM: the stage gives UTILITY on an LLM failure
\* and on an answer that, trimmed and upper-cased, is outside that set, and
\* the trimmed upper-cased answer otherwise.
C11_BillTypeNormalised ==
    agent = "ROUTER" =>
        /\ apc # "route" =>
              /\ astate.bill_type \in {"UTILITY", "MEDICAL", "SUBSCRIPTION", "TELECOM"}
              /\ "route" \in afailed => astate.bill_type = "UTILITY"
        /\ apc = "route" =>
              \A r \in ClassifyAnswers :
                  LET answer == UpperStr(StripStr(r.content.content))
                      known == answer \in {"UTILITY", "MEDICAL", "SUBSCRIPTION", "TELECOM"}
                      after == route_bill(astate, r).bill_type
                  IN  /\ (~r.ok \/ ~known) => after = "UTILITY"
                      /\ (r.ok /\ known) => after = answer

\* the router chain has ended after a classification call that raised
C11_Witness ==
    /\ agent = "ROUTER"
    /\ apc = "END"
    /\ "route" \in afailed
    /\ astate.bill_type = "UTILITY"


(***************************************************************************)
(* Properties of the savings stages                                        *)
(***************************************************************************)
\* the chains that end with a savings stage
SavingsAgents == {"UTILITY", "MEDICAL", "SUBSCRIPTION", "TELECOM"}

\* a chain with a savings stage has run to its end
SavingsDone == agent \in SavingsAgents /\ apc = "END"

\* the scenario the confidence thresholds name
ScenarioOf(confidence) ==
    IF confidence > 8000 THEN "aggressive"
    ELSE IF confidence > 6000 THEN "moderate"
    ELSE "conservative"

\* the Medical agent has run on a bill with a detected billing error
BillingError == agent = "MEDICAL" /\ Get(astate, "has_errors", FALSE)

\* C15 as stated: in every specialist's savings stage target_savings is
\* chosen by confidence alone (aggressive above 0.8, moderate above 0.6 up
\* to 0.8, conservative up to 0.6), the Medical agent with a billing error
\* being the only exception
C15_ByConfidenceAlone ==
    (SavingsDone /\ ~BillingError) =>
        astate.target_savings
            = astate.savings_potential[ScenarioOf(Get(astate, "confidence_score", 5000))]

\* C15, amended: target_savings is chosen by the confidence thresholds in
\* the Utility, Subscription and Medical savings stages (Medical without a
\* billing error); the Telecom savings stage picks the aggressive scenario
\* only when the service type's negotiation_potential is above 0.8 as well,
\* and the moderate scenario for a confidence above 0.8 otherwise
C15_ByConfidenceAndPotential ==
    (SavingsDone /\ ~BillingError) =>
        LET confidence == Get(astate, "confidence_score", 5000)
            capped == /\ agent = "TELECOM"
                      /\ confidence > 8000
                      /\ Get(Get(astate, "type_info", EmptyDict), "negotiation_potential", 8000) <= 8000
        IN  astate.target_savings
                = astate.savings_potential[IF capped THEN "moderate" ELSE ScenarioOf(confidence)]

\* a Telecom run has ended with a confidence above 0.8 on a service type
\* whose negotiation_potential is 0.8, with the moderate scenario as target
C15_Witness ==
    /\ SavingsDone
    /\ agent = "TELECOM"
    /\ astate.confidence_score > 8000
    /\ astate.type_info.negotiation_potential = 8000
    /\ astate.target_savings = astate.savings_potential["moderate"]
    /\ astate.target_savings # astate.savings_potential["aggressive"]

\* the percentage fields of the three recorded scenarios, in tenths of a
\* percent
Percentages ==
    [sc \in DOMAIN astate.savings_potential |-> astate.savings_potential[sc].percentage]

\* the recorded savings of a one-off scenario are the bill's amount times the
\* rate (in ten-thousandths), to the nearest cent
SavingsAtRate(sc, rate) ==
    LET due == astate.amount * rate
        got == astate.savings_potential[sc].savings_amount * 10000
    IN  due - got <= 5000 /\ got - due <= 5000

\* C16: in the Medical agent's savings stage, whenever a billing error was
\* detected (has_errors is true) target_savings is the aggressive scenario
\* whatever the confidence_score, and the scenarios are computed at the
\* error table's 20%, 40% and 60%; without a billing error they are computed
\* at 15%, 30% and 50%
C16_BillingErrorForcesAggressive ==
    (agent = "MEDICAL" /\ apc = "END") =>
        IF Get(astate, "has_errors", FALSE)
          THEN /\ astate.target_savings = astate.savings_potential["aggressive"]
               /\ Percentages = [conservative |-> 200, moderate |-> 400, aggressive |-> 600]
               /\ SavingsAtRate("conservative", 2000)
               /\ SavingsAtRate("moderate", 4000)
               /\ SavingsAtRate("aggressive", 6000)
          ELSE /\ Percentages = [conservative |-> 150, moderate |-> 300, aggressive |-> 500]
               /\ SavingsAtRate("conservative", 1500)
               /\ SavingsAtRate("moderate", 3000)
               /\ SavingsAtRate("aggressive", 5000)

\* a Medical run on a 2450.00 bill with a billing error has ended with a
\* confidence of at most 0.6 and the 60% scenario as target
C16_Witness ==
    /\ BillingError
    /\ apc = "END"
    /\ astate.amount = 245000
    /\ astate.confidence_score <= 6000
    /\ astate.target_savings.percentage = 600
    /\ astate.target_savings.savings_amount = 147000

\* C17: after any run of any of the four specialists, savings_potential
\* holds exactly the three scenarios conservative, moderate and aggressive,
\* and target_savings is identical to exactly one of them
C17_TargetIsOneScenario ==
    (agent \in Specialists /\ apc = "END") =>
        /\ "savings_potential" \in DOMAIN astate
        /\ DOMAIN astate.savings_potential = {"conservative", "moderate", "aggressive"}
        /\ "target_savings" \in DOMAIN astate
        /\ Cardinality({sc \in DOMAIN astate.savings_potential :
                          astate.savings_potential[sc] = astate.target_savings}) = 1

\* C18: in the savings calculation of a one-off bill, for any amount >= 0
\* in whole cents and every scenario, the recorded savings_amount is the
\* amount times the scenario's rate to the nearest cent, and the recorded
\* final_amount is the amount less the recorded savings_amount, so that the
\* two add up to the amount
C18_SavingsAndFinalAddUp ==
    (agent = "MEDICAL" /\ apc = "END") =>
        \A sc \in DOMAIN astate.savings_potential :
            LET scenario == astate.savings_potential[sc]
            IN  /\ SavingsAtRate(sc, 10 * scenario.percentage)
                /\ scenario.savings_amount + scenario.final_amount = astate.amount

\* C19: for the recurring-bill specialists (Utility, Subscription, Telecom),
\* for any amount >= 0 and every scenario, the recorded annual_savings is 12
\* times the recorded monthly_savings
C19_AnnualIsTwelveMonthly ==
    (agent \in {"UTILITY", "SUBSCRIPTION", "TELECOM"} /\ apc = "END") =>
        \A sc \in DOMAIN astate.savings_potential :
            astate.savings_potential[sc].annual_savings
                = 12 * astate.savings_potential[sc].monthly_savings

\* the savings stage of a chain, run on a state
SavingsStage(kind, st) ==
    CASE kind = "UTILITY" -> calculate_savings_potential(st)
      [] kind = "MEDICAL" -> calculate_medical_savings(st)
      [] kind = "SUBSCRIPTION" -> calculate_subscription_savings(st)
      [] kind = "TELECOM" -> calculate_telecom_savings(st)

\* C20: running a specialist's savings stage a second time on the state it
\* just produced, with amount, confidence and sub-type metadata unchanged,
\* does not raise and yields a state identical to the one after the first run
C20_SavingsStageIdempotent ==
    SavingsDone =>
        /\ ~SavingsRaises(astate)
        /\ SavingsStage(agent, astate) = astate

\* the Utility savings stage has produced non-zero scenarios for a 19.99
\* bill, and a second run on that state reproduces it
C20_Witness ==
    /\ SavingsDone
    /\ agent = "UTILITY"
    /\ astate.amount = 1999
    /\ astate.target_savings.monthly_savings > 0
    /\ SavingsStage(agent, astate) = astate

\* what a scenario leaves of the bill: its final_amount, or for a recurring
\* bill the amount less the monthly savings
FinalAmount(scenario) ==
    IF "final_amount" \in DOMAIN scenario
      THEN scenario.final_amount
      ELSE astate.amount - scenario.monthly_savings

\* C21 as stated: for each specialist and any amount > 0, the conservative scenario in
\* savings_potential leaves a final amount that is strictly positive and
\* strictly less than the amount
C21_ConservativeFinalBelowAmount ==
    (SavingsDone /\ astate.amount > 0) =>
        /\ FinalAmount(astate.savings_potential["conservative"]) > 0
        /\ FinalAmount(astate.savings_potential["conservative"]) < astate.amount

\* C21, amended: for any amount > 0 the conservative scenario leaves a final
\* amount that is strictly positive and at most the amount; it is strictly
\* less than the amount when the amount times the conservative rate is more
\* than half a cent, and equal to the amount when that product is less than
\* half a cent and rounds to no savings
C21_ConservativeFinalWithinAmount ==
    (SavingsDone /\ astate.amount > 0) =>
        LET conservative == astate.savings_potential["conservative"]
            product == astate.amount * 10 * conservative.percentage
        IN  /\ FinalAmount(conservative) > 0
            /\ FinalAmount(conservative) <= astate.amount
            /\ product > 5000 => FinalAmount(conservative) < astate.amount
            /\ product < 5000 => FinalAmount(conservative) = astate.amount

\* the Medical savings stage has run on a bill of one cent: the conservative
\* scenario saves nothing and its final amount is the whole cent
C21_Witness ==
    /\ SavingsDone
    /\ agent = "MEDICAL"
    /\ astate.amount = 1
    /\ astate.savings_potential["conservative"].savings_amount = 0
    /\ astate.savings_potential["conservative"].final_amount = 1

(***************************************************************************)
(* Properties of the router chain                                          *)
(***************************************************************************)
\* C25: no router stage writes confidence_score: at every point of a router
\* run, with any LLM responses or failures, confidence_score has the value
\* it had when the router state was created
C25_RouterKeepsConfidence ==
    agent = "ROUTER" =>
        /\ "confidence_score" \in DOMAIN astate
        /\ astate.confidence_score = RouterInitialState(astate.ocr_text).confidence_score

\* a router run whose two LLM calls failed has ended with the confidence it
\* was created with
C25_Witness ==
    /\ agent = "ROUTER"
    /\ apc = "END"
    /\ afailed = {"route", "extract"}
    /\ astate.company = "Unknown"
    /\ astate.confidence_score = 0

(***************************************************************************)
(* Properties of the script stages                                         *)
(***************************************************************************)
\* C26: the script stage of the Medical, Subscription and Telecom agents
\* leaves confidence_score unchanged whether its LLM call succeeds or fails;
\* in the Utility agent a failed script call leaves it unchanged and a
\* successful one can only raise it, to 0.95 at most
C26_ScriptStageConfidence ==
    [][(agent \in SavingsAgents /\ apc = "create_script") =>
         /\ "confidence_score" \in DOMAIN astate
         /\ "script" \in DOMAIN astate'
         /\ IF agent = "UTILITY" /\ "create_script" \notin afailed'
              THEN /\ astate'.confidence_score >= astate.confidence_score
                   /\ astate'.confidence_score <= 9500
              ELSE astate'.confidence_score = astate.confidence_score]_vars

\* a Medical chain has passed its script stage with the LLM call failed, and
\* has the confidence 0.9 its strategy stage wrote
C26_Witness ==
    /\ agent = "MEDICAL"
    /\ apc = "calculate_savings"
    /\ afailed = {"create_script"}
    /\ astate.script = Lit("Script generation failed")
    /\ astate.confidence_score = 9000

(***************************************************************************)
(* Properties of the specialist graphs                                     *)
(***************************************************************************)
\* C27: each specialist graph is a strictly linear chain in which every
\* stage runs exactly once in a fixed order: a step leads from the stage at
\* position i to the stage at position i + 1 and from the last stage out of
\* the graph; the last stage is a savings calculation, and it makes no LLM
\* call, so that no call of it can fail
C27_LinearChainEndsWithSavings ==
    [][(agent \in Specialists =>
         LET nodes == NodesOf(agent)
             i == CHOOSE k \in 1..Len(nodes) : nodes[k] = apc
         IN  /\ apc \in {nodes[k] : k \in 1..Len(nodes)}
             /\ Cardinality({k \in 1..Len(nodes) : nodes[k] = apc}) = 1
             /\ i < Len(nodes) => apc' = nodes[i + 1]
             /\ i = Len(nodes) =>
                   /\ apc' \in {"END", "raised"}
                   /\ apc = "calculate_savings"
                   /\ afailed' = afailed)]_vars

(***************************************************************************)
(* Properties of the knowledge tables                                      *)
(***************************************************************************)
\* the records state['type_info'] may refer to: the entries of the agent's
\* table and, for Subscription, the literal used for an unknown type
TypeInfoEntries(kind) ==
    IF kind = "TELECOM"
      THEN {telecom_types[t] : t \in DOMAIN telecom_types}
      ELSE {subscription_types[t] : t \in DOMAIN subscription_types}
             \cup {SubscriptionFallbackInfo}

\* C30: no stage modifies the static knowledge tables: state['type_info']
\* refers to a table entry directly, and every stage leaves that entry as
\* the table defines it, so the tables are the same before and after a run
C30_TablesUnchanged ==
    [][(agent \in {"SUBSCRIPTION", "TELECOM"} =>
         /\ "type_info" \in DOMAIN astate => astate'.type_info = astate.type_info
         /\ "type_info" \in DOMAIN astate' => astate'.type_info \in TypeInfoEntries(agent))]_vars

\* a Telecom run has ended after a failed usage analysis, and its type_info
\* is still the table's entry for the detected type
C30_Witness ==
    /\ agent = "TELECOM"
    /\ apc = "END"
    /\ "analyse_usage" \in afailed
    /\ astate.telecom_type = "internet"
    /\ astate.type_info = telecom_types["internet"]

(***************************************************************************)
(* Templates embedded in the script prompt                                 *)
(***************************************************************************)
\* the agents whose graph has a script-generation stage
ScriptAgents == {"UTILITY", "MEDICAL", "SUBSCRIPTION", "TELECOM"}

\* the script stage has the strategy stage behind it
StrategyDone ==
    /\ agent \in ScriptAgents
    /\ apc \in {"create_script", "calculate_savings", "END", "raised"}

ScriptDone == StrategyDone /\ apc # "create_script"

\* the triggers of each script stage in the order they are tested: the flag
\* or the words that fire the trigger, and the templates it stands for
Triggers(kind) ==
    CASE kind = "UTILITY" ->
           << [flag |-> FALSE, words |-> {"loyal"}, templates |-> <<0>>],
              [flag |-> FALSE, words |-> {"competitor"}, templates |-> <<1, 2>>],
              [flag |-> FALSE, words |-> {"hardship"}, templates |-> <<4>>],
              [flag |-> FALSE, words |-> {"discount"}, templates |-> <<3>>] >>
      [] kind = "MEDICAL" ->
           << [flag |-> TRUE, words |-> {}, templates |-> <<0, 3, 4>>],
              [flag |-> FALSE, words |-> {"hardship", "charity"}, templates |-> <<2>>],
              [flag |-> FALSE, words |-> {"settlement"}, templates |-> <<1>>],
              [flag |-> FALSE, words |-> {"uninsured"}, templates |-> <<5>>],
              [flag |-> FALSE, words |-> {"payment plan"}, templates |-> <<6>>] >>
      [] kind = "SUBSCRIPTION" ->
           << [flag |-> FALSE, words |-> {"loyalty"}, templates |-> <<0>>],
              [flag |-> FALSE, words |-> {"competitor"}, templates |-> <<1, 3>>],
              [flag |-> FALSE, words |-> {"cancel"}, templates |-> <<4>>],
              [flag |-> FALSE, words |-> {"downgrade"}, templates |-> <<2>>],
              [flag |-> FALSE, words |-> {"hardship"}, templates |-> <<5>>] >>
      [] kind = "TELECOM" ->
           << [flag |-> FALSE, words |-> {"competitor"}, templates |-> <<0, 1>>],
              [flag |-> FALSE, words |-> {"promotional"}, templates |-> <<2>>],
              [flag |-> FALSE, words |-> {"usage"}, templates |-> <<3, 7>>],
              [flag |-> FALSE, words |-> {"bundle"}, templates |-> <<4>>],
              [flag |-> FALSE, words |-> {"cancel"}, templates |-> <<6>>] >>

\* the trigger fires on the state the script stage reads
Matches(trigger, st) ==
    \/ trigger.flag /\ Get(st, "has_errors", FALSE)
    \/ \E w \in trigger.words : In(w, Lower(Get(st, "negotiation_strategy", Lit(""))))

RECURSIVE TemplatesOfMatched(_, _, _)
TemplatesOfMatched(triggers, st, i) ==
    IF i > Len(triggers)
      THEN <<>>
      ELSE (IF Matches(triggers[i], st) THEN triggers[i].templates ELSE <<>>)
             \o TemplatesOfMatched(triggers, st, i + 1)

SelectedScripts(kind, st) ==
    CASE kind = "UTILITY" -> utility_selected_scripts(st)
      [] kind = "MEDICAL" -> medical_selected_scripts(st)
      [] kind = "SUBSCRIPTION" -> subscription_selected_scripts(st)
      [] kind = "TELECOM" -> telecom_selected_scripts(st)

\* C31: the templates a script stage embeds in its prompt are never empty:
\* the first three of the library when no trigger fires, and otherwise the
\* templates of the triggers that fire, in trigger order, none of them twice
C31_TemplatesOfMatchedTriggers ==
    StrategyDone =>
      LET selected == SelectedScripts(agent, astate)
          triggers == Triggers(agent)
      IN  /\ selected # <<>>
          /\ \A i, j \in 1..Len(selected) : selected[i] = selected[j] => i = j
          /\ IF \E i \in 1..Len(triggers) : Matches(triggers[i], astate)
               THEN selected = TemplatesOfMatched(triggers, astate, 1)
               ELSE selected = <<0, 1, 2>>

\* a medical script was generated from a flagged billing error and a strategy
\* that speaks of a settlement and a payment plan
C31_Witness ==
    /\ ScriptDone
    /\ agent = "MEDICAL"
    /\ "script" \in DOMAIN astate
    /\ medical_selected_scripts(astate) = <<0, 3, 4, 1, 6>>

(***************************************************************************)
(* Telecom and subscription type identification                            *)
(***************************************************************************)
\* the analysis the telecom identification stage stored, lower-cased as the
\* stage lower-cases it
ServiceAnalysis == Lower(Get(astate, "service_analysis", Lit("")))

\* C32: an analysis that mentions both 'internet' and 'tv' and neither
\* 'mobile' nor 'cell' is classified as telecom_type 'bundle'
C32_InternetAndTvIsBundle ==
    ( /\ agent = "TELECOM"
      /\ "service_analysis" \in DOMAIN astate
      /\ In("internet", ServiceAnalysis) /\ In("tv", ServiceAnalysis)
      /\ ~In("mobile", ServiceAnalysis) /\ ~In("cell", ServiceAnalysis) )
      => astate.telecom_type = "bundle"

(***************************************************************************)
(* Dispatch on the routed type                                             *)
(***************************************************************************)
\* the entries execute_specialist_agent appends when the lookup misses
UnknownAgentEntries ==
    {"Specialist execution error: Unknown agent type: " \o UpperStr(StripStr(s)) :
       s \in ClassifyTexts}

\* C33: a run is dispatched on one of UTILITY, MEDICAL, SUBSCRIPTION and
\* TELECOM, which is the bill_type of its result; the lookup in
\* execute_specialist_agent never misses and no 'Unknown agent type' entry
\* is ever recorded
C33_DispatchNeverMisses ==
    /\ pc \in {"execute", "evaluate", "branch", "finalize", "end"} \cup TerminalNodes =>
         /\ state.agent_decision \in valid_types
         /\ state.agent_decision \in agent_workflows
         /\ \A i \in 1..Len(state.error_messages) :
              state.error_messages[i] \notin UnknownAgentEntries
    /\ Completed =>
         /\ result.bill_type \in valid_types
         /\ \A i \in 1..Len(result.processing_errors) :
              result.processing_errors[i] \notin UnknownAgentEntries

\* a run dispatched to the Telecom agent has returned its result
C33_Witness ==
    /\ Completed
    /\ result.bill_type = "TELECOM"
    /\ trace[2] = "execute"

(***************************************************************************)
(* Runs dispatched to the Medical agent                                    *)
(***************************************************************************)
\* the run was dispatched to the Medical agent and the execute node is behind it
MedicalRun ==
    /\ pc \in {"evaluate", "branch", "finalize", "end"} \cup TerminalNodes
    /\ state.agent_decision = "MEDICAL"

\* C34: in a run dispatched to the Medical agent has_errors is never set, the
\* confidence never exceeds 0.7, the mode is never auto_execute and the target
\* is never the aggressive scenario
C34_MedicalNeverAggressive ==
    /\ MedicalRun =>
         LET negotiation_result == state.negotiation_result
         IN  /\ "has_errors" \notin DOMAIN negotiation_result
             /\ "savings_potential" \in DOMAIN negotiation_result
             /\ negotiation_result.target_savings # negotiation_result.savings_potential["aggressive"]
             /\ negotiation_result.confidence_score <= 7000
             /\ state.confidence_score <= 7000
             /\ pc # "auto_execute"
             /\ Get(state, "execution_mode", "") # "auto_execute"
    /\ (Completed /\ result.bill_type = "MEDICAL") =>
         /\ result.confidence_score <= 7000
         /\ result.execution_mode # "auto_execute"
         /\ result.target_savings.percentage \in {150, 300}

\* a Medical run on a bill above 1000 whose strategy names charity care and
\* the uninsured discount has ended supervised at confidence 0.7
C34_Witness ==
    /\ Completed
    /\ result.bill_type = "MEDICAL"
    /\ result.amount = 245000
    /\ result.confidence_score = 7000
    /\ result.execution_mode = "supervised"
    /\ result.target_savings.percentage = 300

(***************************************************************************)
(* Results in auto_execute mode                                            *)
(***************************************************************************)
\* the texts a strategy or script stage writes when its call raises, and the
\* empty default of finalize_processing
FailureSentinels ==
    {Lit("Strategy generation failed"), Lit("Unable to generate strategy"),
     Lit("Script generation failed"), Lit("")}

\* C35: a result in auto_execute mode carries a strategy and a script that
\* successful LLM calls returned, never a failure sentinel or the empty text
C35_AutoExecuteHasNoSentinel ==
    (Completed /\ result.execution_mode = "auto_execute") =>
      /\ result.negotiation_strategy \notin FailureSentinels
      /\ result.negotiation_script \notin FailureSentinels
      /\ result.negotiation_strategy.content = "llm"
      /\ result.negotiation_script.content = "llm"

\* C36: a run that recorded an error, such as the routing error on an empty
\* text, never ends in auto_execute mode
C36_ErrorsExcludeAutoExecute ==
    /\ (pc \in {"branch", "finalize", "end"} \cup TerminalNodes /\ Len(state.error_messages) > 0) =>
         state.execution_mode # "auto_execute"
    /\ (Completed /\ Len(result.processing_errors) > 0) =>
         result.execution_mode # "auto_execute"

\* C37: after the type-identification stage of the Subscription and Telecom
\* agents, succeeded or failed, type_info is the metadata entry of the
\* recorded sub-type, and the fallback metadata exactly when the recorded
\* sub-type is the fallback sub-type ('other', 'bundle')
C37_TypeInfoOfRecordedType ==
    /\ (agent = "SUBSCRIPTION" /\ "subscription_type" \in DOMAIN astate) =>
         /\ astate.type_info =
              Get(subscription_types, astate.subscription_type, SubscriptionFallbackInfo)
         /\ astate.type_info = SubscriptionFallbackInfo <=> astate.subscription_type = "other"
    /\ (agent = "TELECOM" /\ "telecom_type" \in DOMAIN astate) =>
         /\ astate.type_info = Get(telecom_types, astate.telecom_type, telecom_types["bundle"])
         /\ astate.type_info = telecom_types["bundle"] <=> astate.telecom_type = "bundle"

(***************************************************************************)
(* Lazy compilation of the orchestrator workflow under concurrent calls    *)
(***************************************************************************)
\* the call has the lazy check and the construction behind it
PastConstruction(r) == pc[r] \notin {"idle", "create", "compile"}

\* C38: under any interleaving of process_bill calls that start on an
\* orchestrator without a workflow, every call reads a compiled workflow when
\* it invokes it, self.workflow is set once a call is past the construction
\* and stays set, and a call returns the result it gives alone, whether one
\* or several of the calls compiled the workflow
C38_LazyCompilationIsSafe ==
    \A r \in 1..MaxRuns :
        /\ PastConstruction(r) => workflow
        /\ pc[r] = "done" =>
             /\ result[r] # FailedResult("'NoneType' object has no attribute 'invoke'")
             /\ Len(calls[r]) = 2
             /\ result[r] = IsolatedResult(bill[r], calls[r])

\* both calls found no workflow, both compiled one, and both have returned a
\* result of a completed run
C38_Witness ==
    \A r \in 1..MaxRuns :
        /\ pc[r] = "done"
        /\ Len(trace[r]) = 6
        /\ trace[r][1] = "compile"
        /\ "execution_instructions" \in DOMAIN result[r]

(***************************************************************************)
(* The processing status of a run                                          *)
(***************************************************************************)
\* how far along a status is
StatusRank ==
    [ pending |-> 0, routed |-> 1, routing_error |-> 1,
      specialist_complete |-> 2, specialist_error |-> 2,
      auto_ready |-> 3, supervised_ready |-> 3, human_handoff_ready |-> 3,
      complete |-> 4 ]

\* the statuses a run may have when node is its next node
StatusesAt(node, mode) ==
    CASE node = "route" -> {"pending"}
      [] node = "execute" -> {"routed", "routing_error"}
      [] node \in {"evaluate", "branch"} \cup TerminalNodes ->
           {"specialist_complete", "specialist_error"}
      [] node = "finalize" ->
           {CASE mode = "auto_execute" -> "auto_ready"
              [] mode = "supervised" -> "supervised_ready"
              [] mode = "human_handoff" -> "human_handoff_ready"}
      [] node \in {"end", "raised"} -> {"complete"}

\* C39: during a run processing_status moves from pending to routed or
\* routing_error, to specialist_complete or specialist_error, to the ready
\* status of the selected mode, to complete; no step takes it back, and it
\* is complete when the run ends, by END or by an exception
C39_StatusMovesForward ==
    [][( /\ pc # "idle" =>
              state.processing_status \in StatusesAt(pc, state.execution_mode)
         /\ pc' # "idle" =>
              state'.processing_status \in StatusesAt(pc', state'.execution_mode)
         /\ (pc # "idle" /\ pc' # "idle") =>
              StatusRank[state'.processing_status] - StatusRank[state.processing_status]
                \in {0, 1} )]_vars

\* a run on a bill without text has gone from routing_error through the
\* specialist stage and human_handoff to complete
C39_Witness ==
    /\ pc = "end"
    /\ state.processing_status = "complete"
    /\ state.execution_mode = "human_handoff"
    /\ state.error_messages = <<"Routing error: No OCR text provided in bill data">>
    /\ trace = <<"route", "execute", "evaluate", "human_handoff", "finalize">>

============================================================================
